---- MODULE Spec2Model ----
(***************************************************************************)
(* The AI response broker of the SarkarBrothers toy shop (services/gemini): *)
(* the local heuristic responder localChatFallback, the chat and voice      *)
(* entry points with their single remote strategy, and the image chains     *)
(* Imagen -> Gemini (two model variants) -> Pollinations.                   *)
(*                                                                          *)
(* A JavaScript string is a sequence of one-character strings; "Rs" is the  *)
(* rupee sign U+20B9 and "U+09xx" a Bengali code unit.  A rating is kept in *)
(* tenths (4.8 is 48), which preserves every comparison the code makes.     *)
(***************************************************************************)
EXTENDS Integers, Sequences, FiniteSets, TLC

VARIABLES
    API_KEY,     \* process.env.GEMINI_API_KEY || ''
    ai,          \* the GoogleGenAI client, or NULL
    products,    \* the catalog imported from ../data
    kind,        \* which entry point the request calls
    message,     \* the user's text
    language,    \* 'en' | 'bn'
    size,        \* the size argument of an image request, a string like '1024x1024'
    imageFile,   \* the File to edit: its bytes and its type
    history,     \* the ChatMessage[] the caller passes to the chat
    settled,     \* let settled of the promise of tryPollinationsGenerate
    fired,       \* the callbacks of that promise that have run, in order
    elapsed,     \* the time since that promise was made, in units of TimeUnit ms
    console,     \* what console.warn and console.error were called with since the call
    pc,          \* where the asynchronous call stands
    calls,       \* the provider strategies invoked so far, in order
    outcomes,    \* what each invoked strategy did, in the same order
    result,      \* the settled promise of the entry point
    previous,    \* the outcomes and the result of an earlier call with the same arguments
    messages,    \* VoiceAssistant: the Message[] shown
    isLoading,   \* VoiceAssistant: useState(false)
    textInput,   \* VoiceAssistant: the text typed below the conversation
    voiceCalls,  \* VoiceAssistant: the calls of generateVoiceResponse awaited, by their text
    USE_MOCK_BACKEND, \* services/api: process.env.USE_MOCK_BACKEND
    searchQuery, \* Navbar: the text of the search field
    suggestions, \* Navbar: the products of the dropdown
    listCalls,   \* Navbar: the calls of api.products.list awaited, by their query, oldest first
    firebaseEnabled, \* AuthProvider: isFirebaseEnabled()
    firebaseUser,    \* the user the Firebase SDK holds as signed in, or NoUser
    authChanges,     \* how many auth-change notifications Firebase has yet to deliver
    isAuthenticated, \* AuthProvider: useState(false)
    user,            \* AuthProvider: the AuthUser, or NoUser for null
    role,            \* AuthProvider: the UserRole, or "" for null
    loading,         \* AuthProvider: useState(true)
    sessionStorage,  \* the items currentUser and authToken
    loginCalls,      \* the calls of api.user.login awaited, by their credentials
    googleCalls,     \* how many calls of signInWithGoogle are awaited
    loggedOut,       \* logout() was called and no login()/loginWithGoogle() was started since
    viewedItems,     \* localStorage: the item viewedItems, parsed
    productName,     \* the argument of the last call of saveToHistory
    saves,           \* how many calls of saveToHistory were made
    dbConnected,     \* server/index.js: let dbConnected
    collection,      \* the documents of the Order model in MongoDB, oldest first
    mockOrders,      \* the orders of data, in the module that answers (browser or server)
    fetched,         \* the last call of api.user.getOrders: its email and what it returned
    today,           \* the day, as a number
    priceFilter,     \* Shop: the labels of the price ranges selected, in the order of the clicks
    shown            \* Shop: the price ranges of the last fetchProducts and the products it set

\* the variables of the service module services/gemini
serviceVars == <<API_KEY, ai, products, kind, message, language, size, imageFile, history, settled, fired, elapsed, console, pc, calls, outcomes, result, previous>>

\* the state of the VoiceAssistant page
voiceVars == <<messages, isLoading, textInput, voiceCalls>>

\* the state of the Navbar and the mode of services/api
navVars == <<USE_MOCK_BACKEND, searchQuery, suggestions, listCalls>>

\* the state of the AuthProvider, of the session store and of Firebase
authVars == <<firebaseEnabled, firebaseUser, authChanges, isAuthenticated, user, role, loading, sessionStorage, loginCalls, googleCalls, loggedOut>>

\* the viewed-items history in localStorage
historyVars == <<viewedItems, productName, saves>>

\* the orders and who holds them
orderVars == <<dbConnected, collection, mockOrders, fetched, today>>

\* the state of the Shop page
shopVars == <<priceFilter, shown>>

\* the state outside the service module
uiVars == <<voiceVars, navVars, authVars, historyVars, orderVars, shopVars>>

vars == <<serviceVars, uiVars>>

\* the VoiceAssistant page as mounted
voiceIdle ==
    /\ messages = <<>>
    /\ isLoading = FALSE
    /\ textInput = <<>>
    /\ voiceCalls = <<>>

\* the Navbar as mounted, over the mock backend
navIdle ==
    /\ USE_MOCK_BACKEND = TRUE
    /\ searchQuery = <<>>
    /\ suggestions = <<>>
    /\ listCalls = <<>>

\* null, where an AuthUser is expected
NoUser == [id |-> "", email |-> "", role |-> ""]

\* sessionStorage after clear()
EmptyStore == [currentUser |-> NoUser, authToken |-> ""]

\* the AuthProvider mounted without Firebase over an empty session store
authIdle ==
    /\ firebaseEnabled = FALSE
    /\ firebaseUser = NoUser
    /\ authChanges = 0
    /\ isAuthenticated = FALSE
    /\ user = NoUser
    /\ role = ""
    /\ loading = FALSE
    /\ sessionStorage = EmptyStore
    /\ loginCalls = <<>>
    /\ googleCalls = 0
    /\ loggedOut = FALSE

\* no product has been viewed
historyIdle ==
    /\ viewedItems = <<>>
    /\ productName = ""
    /\ saves = 0

\* an order; a document of the Order model has user and no customerEmail,
\* an order of data has customerEmail and no user ("" for undefined);
\* createdAt counts the orders made
OrderOf(id, customerEmail, customer, date, createdAt) ==
    [id |-> id, customerEmail |-> customerEmail, user |-> customer, date |-> date, createdAt |-> createdAt]

\* orders of data: one of Sarah Jenkins, a later one of another customer
seedOrders ==
    << OrderOf(1002, "alex.chen@example.com", "", 2, 2),
       OrderOf(1001, "sarah.jenkins@example.com", "", 1, 1) >>

NoFetch == [email |-> "", orders |-> <<>>]

\* no order has been made or asked for
orderIdle ==
    /\ dbConnected = FALSE
    /\ collection = <<>>
    /\ mockOrders = seedOrders
    /\ fetched = NoFetch
    /\ today = 2

\* the Shop page has fetched nothing
shopIdle ==
    /\ priceFilter = <<>>
    /\ shown = [ranges |-> <<>>, products |-> <<>>]

\* no page has been used
uiIdle == voiceIdle /\ navIdle /\ authIdle /\ historyIdle /\ orderIdle /\ shopIdle

NULL == "null"

\* ------------------------------------------------------------------ strings

LowerLetters ==
    {"a","b","c","d","e","f","g","h","i","j","k","l","m",
     "n","o","p","q","r","s","t","u","v","w","x","y","z"}

UpperLetters ==
    {"A","B","C","D","E","F","G","H","I","J","K","L","M",
     "N","O","P","Q","R","S","T","U","V","W","X","Y","Z"}

Digits == {"0","1","2","3","4","5","6","7","8","9"}

\* \s of a JavaScript regular expression, and what String.prototype.trim strips
WhiteSpace == {" ", "\t", "\n"}

\* what . does not match
LineTerminators == {"\n"}

\* \w
IsWordChar(c) == c \in LowerLetters \cup UpperLetters \cup Digits \cup {"_"}

LowerOf ==
    [c \in UpperLetters |->
        CASE c = "A" -> "a" [] c = "B" -> "b" [] c = "C" -> "c" [] c = "D" -> "d"
          [] c = "E" -> "e" [] c = "F" -> "f" [] c = "G" -> "g" [] c = "H" -> "h"
          [] c = "I" -> "i" [] c = "J" -> "j" [] c = "K" -> "k" [] c = "L" -> "l"
          [] c = "M" -> "m" [] c = "N" -> "n" [] c = "O" -> "o" [] c = "P" -> "p"
          [] c = "Q" -> "q" [] c = "R" -> "r" [] c = "S" -> "s" [] c = "T" -> "t"
          [] c = "U" -> "u" [] c = "V" -> "v" [] c = "W" -> "w" [] c = "X" -> "x"
          [] c = "Y" -> "y" [] c = "Z" -> "z"]

toLowerCase(s) ==
    [i \in 1..Len(s) |-> IF s[i] \in UpperLetters THEN LowerOf[s[i]] ELSE s[i]]

\* the literal w stands in s at position i
LiteralAt(s, i, w) ==
    /\ i >= 1
    /\ i + Len(w) - 1 <= Len(s)
    /\ Len(w) = 0 \/ s[i] = w[1]
    /\ \A k \in 2..Len(w) : s[i + k - 1] = w[k]

\* String.prototype.includes
includes(s, k) == \E i \in 1..(Len(s) - Len(k) + 1) : LiteralAt(s, i, k)

\* the first position at or after i whose character is outside class (greedy X*)
RECURSIVE SkipChars(_, _, _)
SkipChars(s, i, class) ==
    IF i <= Len(s) /\ s[i] \in class THEN SkipChars(s, i + 1, class) ELSE i

\* \b at the gap before position p (1..Len(s)+1)
AtWordBoundary(s, p) ==
    LET before == p > 1 /\ p - 1 <= Len(s) /\ IsWordChar(s[p - 1])
        after  == p >= 1 /\ p <= Len(s) /\ IsWordChar(s[p])
    IN  before # after

DigitValue(c) ==
    CASE c = "0" -> 0 [] c = "1" -> 1 [] c = "2" -> 2 [] c = "3" -> 3 [] c = "4" -> 4
      [] c = "5" -> 5 [] c = "6" -> 6 [] c = "7" -> 7 [] c = "8" -> 8 [] c = "9" -> 9

\* parseInt of a run of decimal digits
RECURSIVE parseInt(_)
parseInt(digits) ==
    IF digits = <<>> THEN 0
    ELSE 10 * parseInt(SubSeq(digits, 1, Len(digits) - 1)) + DigitValue(digits[Len(digits)])

\* a trim that is left out
trim_leftOut(s) == s

\* String.prototype.trim
trim(s) ==
    LET first == SkipChars(s, 1, WhiteSpace)
        lasts == {j \in 1..Len(s) : s[j] \notin WhiteSpace}
    IN  IF lasts = {} THEN <<>>
        ELSE SubSeq(s, first, CHOOSE j \in lasts : \A k \in lasts : k <= j)

\* ------------------------------------------------- regular expressions used

\* An alternative of a group is a sequence of literals with \s* between them.
\* AltEnd is the position after its match starting at i, or 0.
RECURSIVE AltEnd(_, _, _)
AltEnd(s, i, parts) ==
    IF parts = <<>> THEN i
    ELSE IF ~LiteralAt(s, i, Head(parts)) THEN 0
    ELSE IF Len(parts) = 1 THEN i + Len(Head(parts))
    ELSE AltEnd(s, SkipChars(s, i + Len(Head(parts)), WhiteSpace), Tail(parts))

\* the positions after a match of \b(alt|alt|...)\b that starts at i
BoundedEnds(s, i, alts) ==
    IF ~AtWordBoundary(s, i) THEN {}
    ELSE {e \in {AltEnd(s, i, a) : a \in alts} : e # 0 /\ AtWordBoundary(s, e)}

\* /\b(alt|alt|...)\b/ matches somewhere in s
MatchesBounded(s, alts) == \E i \in 1..Len(s) : BoundedEnds(s, i, alts) # {}

\* /\b(first)\b.*\b(second)\b/ matches somewhere in s
MatchesBoundedThenBounded(s, first, second) ==
    \E i \in 1..Len(s) : \E e \in BoundedEnds(s, i, first) :
        \E k \in e..Len(s) :
            /\ \A j \in e..(k - 1) : s[j] \notin LineTerminators
            /\ BoundedEnds(s, k, second) # {}

\* the four alternatives of the price pattern, in the order of the pattern
PriceWords == << <<"u","n","d","e","r">>, <<"b","e","l","o","w">>, <<"b","u","d","g","e","t">>, <<"w","i","t","h","i","n">> >>

Rupee == "Rs"

\* word \s* Rs? \s* (\d+) at position i: the captured digits, or <<>>
PriceAltAt(s, i, word) ==
    IF ~LiteralAt(s, i, word) THEN <<>>
    ELSE LET a == SkipChars(s, i + Len(word), WhiteSpace)
             b == IF a <= Len(s) /\ s[a] = Rupee THEN a + 1 ELSE a
             c == SkipChars(s, b, WhiteSpace)
             d == SkipChars(s, c, Digits)
         IN  SubSeq(s, c, d - 1)

\* input.match(/under\s*Rs?\s*(\d+)|below...|budget...|within.../): the capture
\* of the leftmost match (priceMatch[1] || [2] || [3] || [4]), or <<>> for null
priceMatch(input) ==
    LET hit(i) == {a \in 1..Len(PriceWords) : PriceAltAt(input, i, PriceWords[a]) # <<>>}
        starts == {i \in 1..Len(input) : hit(i) # {}}
    IN  IF starts = {} THEN <<>>
        ELSE LET i == CHOOSE x \in starts : \A y \in starts : x <= y
                 a == CHOOSE x \in hit(i) : \A y \in hit(i) : x <= y
             IN  PriceAltAt(input, i, PriceWords[a])

ToddlerAlts ==
    { <<<<"b","a","b","y">>>>, <<<<"i","n","f","a","n","t">>>>, <<<<"t","o","d","d","l","e","r">>>>, <<<<"1">>, <<"y","e","a","r">>>>,
      <<<<"2">>, <<"y","e","a","r">>>>, <<<<"0","-","2">>>> }

PreschoolAlts ==
    { <<<<"3">>>>, <<<<"4">>>>, <<<<"5">>>>, <<<<"6">>>>, <<<<"p","r","e","s","c","h","o","o","l">>>>, <<<<"k","i","n","d","e","r","g","a","r","t","e","n">>>> }

YearAlts == { <<<<"y","e","a","r">>>>, <<<<"U+09AC","U+099B","U+09B0">>>> }

PreschoolDigitAlts == { <<<<"3">>>>, <<<<"4">>>>, <<<<"5">>>>, <<<<"6">>>> }

OlderAlts ==
    { <<<<"7">>>>, <<<<"8">>>>, <<<<"9">>>>, <<<<"1","0">>>>, <<<<"1","1">>>>, <<<<"1","2">>>>, <<<<"k","i","d">>>>,
      <<<<"o","l","d","e","r">>>>, <<<<"s","c","h","o","o","l">>, <<"a","g","e">>>> }

GreetingAlts == { <<<<"h","i">>>>, <<<<"h","e","l","l","o">>>>, <<<<"h","e","y">>>>, <<<<"h","o","w","d","y">>>> }

GreetingBengali == { <<"U+09A8","U+09AE","U+09B8","U+09CD","U+0995","U+09BE","U+09B0">>, <<"U+09B9","U+09CD","U+09AF","U+09BE","U+09B2","U+09CB">>, <<"U+09B9","U+09BE","U+0987">> }

ThanksAlts == { <<<<"t","h","a","n","k">>>>, <<<<"b","y","e">>>>, <<<<"g","o","o","d","b","y","e">>>> }

ThanksBengali == { <<"U+09A7","U+09A8","U+09CD","U+09AF","U+09AC","U+09BE","U+09A6">>, <<"U+09AC","U+09BF","U+09A6","U+09BE","U+09AF","U+09BC">> }

BestAlts ==
    { <<<<"b","e","s","t">>>>, <<<<"p","o","p","u","l","a","r">>>>, <<<<"t","o","p">>>>, <<<<"r","e","c","o","m","m","e","n","d">>>>, <<<<"b","e","s","t","s","e","l","l","e","r">>>>,
      <<<<"t","r","e","n","d","i","n","g">>>> }

ShippingAlts ==
    { <<<<"s","h","i","p">>>>, <<<<"d","e","l","i","v","e","r">>>>, <<<<"o","r","d","e","r">>>>, <<<<"r","e","t","u","r","n">>>>, <<<<"r","e","f","u","n","d">>>> }

\* ------------------------------------------------------------------ catalog

Categories ==
    {"Educational", "Outdoor Fun", "Plushies", "Arts & Crafts", "Robots", "Gifts"}

\* categoryKeywords, in the insertion order Object.entries iterates
categoryKeywords ==
    << [cat |-> "Educational",
        keywords |-> << <<"e","d","u","c","a","t","i","o","n","a","l">>, <<"l","e","a","r","n","i","n","g">>, <<"s","t","u","d","y">>, <<"t","e","a","c","h">>, <<"s","c","h","o","o","l">>,
                        <<"b","r","a","i","n">>, <<"p","u","z","z","l","e">>, <<"b","u","i","l","d">>, <<"c","a","s","t","l","e">>, <<"s","t","a","c","k">> >>],
       [cat |-> "Plushies",
        keywords |-> << <<"p","l","u","s","h">>, <<"s","t","u","f","f","e","d">>, <<"s","o","f","t">>, <<"t","e","d","d","y">>, <<"b","e","a","r">>,
                        <<"e","l","e","p","h","a","n","t">>, <<"c","u","d","d","l","y">>, <<"h","u","g">>, <<"c","u","t","e">> >>],
       [cat |-> "Robots",
        keywords |-> << <<"r","o","b","o","t">>, <<"t","e","c","h">>, <<"e","l","e","c","t","r","o","n","i","c">>, <<"g","a","l","a","c","t","i","c">>, <<"m","e","c","h">>,
                        <<"a","i">>, <<"s","m","a","r","t">>, <<"f","u","t","u","r","e">> >>],
       [cat |-> "Outdoor Fun",
        keywords |-> << <<"o","u","t","d","o","o","r">>, <<"c","a","r">>, <<"r","a","c","e">>, <<"r","c">>, <<"r","e","m","o","t","e">>, <<"t","r","a","i","n">>,
                        <<"v","e","h","i","c","l","e">>, <<"s","p","e","e","d">>, <<"r","a","c","e","r">> >>],
       [cat |-> "Arts & Crafts",
        keywords |-> << <<"a","r","t">>, <<"c","r","a","f","t">>, <<"d","r","a","w">>, <<"p","a","i","n","t">>, <<"c","o","l","o","r">>, <<"c","r","e","a","t","i","v","e">>,
                        <<"d","e","s","i","g","n">>, <<"s","k","e","t","c","h">> >>],
       [cat |-> "Gifts",
        keywords |-> << <<"g","i","f","t">>, <<"p","r","e","s","e","n","t">>, <<"b","i","r","t","h","d","a","y">>, <<"s","u","r","p","r","i","s","e">>, <<"p","a","r","t","y">>,
                        <<"o","c","c","a","s","i","o","n">>, <<"s","p","e","c","i","a","l">> >>] >>

\* keywords.filter(k => input.includes(k)).length
keywordMatches(input, keywords) ==
    Cardinality({k \in 1..Len(keywords) : includes(input, keywords[k])})

\* the loop with >= for >: a later category of equal count takes over
RECURSIVE matchLoop_lastWins(_, _, _)
matchLoop_lastWins(input, n, best) ==
    IF n > Len(categoryKeywords) THEN best
    ELSE LET matches == keywordMatches(input, categoryKeywords[n].keywords)
         IN  matchLoop_lastWins(input, n + 1,
                 IF matches >= best.maxMatches /\ matches > 0
                 THEN [matchedCategory |-> categoryKeywords[n].cat, maxMatches |-> matches]
                 ELSE best)

\* the for-loop over Object.entries(categoryKeywords) from entry n on, started
\* with (matchedCategory, maxMatches) = best
RECURSIVE matchLoop(_, _, _)
matchLoop(input, n, best) ==
    IF n > Len(categoryKeywords) THEN best
    ELSE LET matches == keywordMatches(input, categoryKeywords[n].keywords)
         IN  matchLoop(input, n + 1,
                 IF matches > best.maxMatches
                 THEN [matchedCategory |-> categoryKeywords[n].cat, maxMatches |-> matches]
                 ELSE best)

matchedCategoryOf(input) ==
    matchLoop(input, 1, [matchedCategory |-> NULL, maxMatches |-> 0]).matchedCategory

\* list sorted by descending keys[i] (the key of list[i]); elements with equal
\* keys keep their order (Array.prototype.sort is stable)
sortDescByKeys(list, keys) ==
    LET n == Len(list)
        rank(i) == 1 + Cardinality({j \in 1..n : \/ keys[j] > keys[i]
                                                 \/ keys[j] = keys[i] /\ j < i})
    IN  [r \in 1..n |-> list[CHOOSE i \in 1..n : rank(i) = r]]

\* list.sort((a, b) => a.rating - b.rating), the comparison turned round
sortByRating_ascending(list) == sortDescByKeys(list, [i \in 1..Len(list) |-> 0 - list[i].rating])

\* list.sort((a, b) => b.rating - a.rating)
sortByRating(list) == sortDescByKeys(list, [i \in 1..Len(list) |-> list[i].rating])

\* list.sort((a, b) => (b.rating * b.reviews) - (a.rating * a.reviews))
sortByRatingTimesReviews(list) ==
    sortDescByKeys(list, [i \in 1..Len(list) |-> list[i].rating * list[i].reviews])

\* Array.prototype.slice(0, n)
slice0(list, n) == SubSeq(list, 1, IF Len(list) < n THEN Len(list) ELSE n)

\* a filter that lets every product through
inStock_any(p) == p.stock >= 0

inStock(p) == p.stock > 0

\* what a reply says of a product
named(p) == [name |-> p.name, price |-> p.price]

namedAll(list) == [i \in 1..Len(list) |-> named(list[i])]

\* list.map(p => `**${p.name}** (Rs${p.price})`).join(', ')
RECURSIVE joinPriced(_)
joinPriced(list) ==
    IF list = <<>> THEN <<>>
    ELSE <<"**", Head(list).name, "** (Rs", ToString(Head(list).price), ")">>
         \o (IF Len(list) > 1 THEN <<", ">> ELSE <<>>) \o joinPriced(Tail(list))

\* list.map(p => `**${p.name}** (Rs${p.price}, ${p.rating}*)`).join(', ')
RECURSIVE joinRated(_)
joinRated(list) ==
    IF list = <<>> THEN <<>>
    ELSE <<"**", Head(list).name, "** (Rs", ToString(Head(list).price), ", ",
           ToString(Head(list).rating), "/10 stars)">>
         \o (IF Len(list) > 1 THEN <<", ">> ELSE <<>>) \o joinRated(Tail(list))

\* A reply: the branch that produced it, the ceiling or category it was built
\* for, the products it names, and its text as the pieces of the template
\* literal (Bengali templates are given in gloss).
Reply(branch, lang, arg, items, text) ==
    [branch |-> branch, lang |-> lang, arg |-> arg, items |-> items, text |-> text]

RainbowStacker == [name |-> "Rainbow Stacker", price |-> 1199]
CuddlyElephant == [name |-> "Cuddly Elephant", price |-> 1699]
CastleBuilderSet == [name |-> "Castle Builder Set", price |-> 7999]
MegaArtKit == [name |-> "Mega Art Kit", price |-> 2999]
SurpriseGiftBox == [name |-> "Surprise Gift Box", price |-> 1699]
SuperGalacticRobot == [name |-> "Super Galactic Robot", price |-> 3999]
SpeedRacerRC == [name |-> "Speed Racer RC", price |-> 3499]
MedievalCastle == [name |-> "Medieval Castle", price |-> 3899]

\* the price branch, entered with the capture of the price pattern
priceReply(catalog, digits, bn) ==
    LET maxPrice == parseInt(digits)
        affordableP(p) == p.price <= maxPrice /\ p.stock > 0
        affordable == sortByRating(SelectSeq(catalog, affordableP))
        top == slice0(affordable, 3)
        lang == IF bn THEN "bn" ELSE "en"
    IN  IF Len(affordable) > 0
        THEN Reply("price", lang, ToString(maxPrice), namedAll(top),
                 IF bn
                 THEN <<"Rs", ToString(maxPrice), " (bn) our best products within: ">>
                      \o joinPriced(top) \o <<"!">>
                 ELSE <<"Great options under Rs", ToString(maxPrice), ": ">>
                      \o joinPriced(top) \o <<"!">>)
        ELSE IF bn
        THEN Reply("priceNone", lang, ToString(maxPrice), <<>>,
                 <<"(bn) Sorry, there is no product in this budget.">>)
        ELSE Reply("priceNone", lang, ToString(maxPrice), <<RainbowStacker>>,
                 <<"Sorry, we don't have products in that budget range. ",
                   "Our most affordable option is the Rainbow Stacker at Rs1,199!">>)

\* the in-stock products of a category, best first
categoryProducts(catalog, category) ==
    LET ofCategory(p) == p.category = category /\ p.stock > 0
    IN  sortByRatingTimesReviews(SelectSeq(catalog, ofCategory))

categoryReply(catalog, category, bn) ==
    LET top == slice0(categoryProducts(catalog, category), 3)
    IN  Reply("category", IF bn THEN "bn" ELSE "en", category, namedAll(top),
            IF bn
            THEN <<category, " (bn) our best products in the category: ">>
                 \o joinRated(top) \o <<"! (bn) Which one do you like?">>
            ELSE <<"Great picks from ", category, ": ">>
                 \o joinRated(top) \o <<"! Want to know more about any of these?">>)

\* a best-sellers branch whose Bengali list is not filtered by stock
bestReply_bnUnfiltered(catalog, bn) ==
    LET bestSellers == slice0(sortByRatingTimesReviews(IF bn THEN catalog ELSE SelectSeq(catalog, inStock)), 3)
    IN  Reply("best", IF bn THEN "bn" ELSE "en", "", namedAll(bestSellers),
            IF bn
            THEN <<"(bn) Our best sellers: ">> \o joinRated(bestSellers) \o <<"!">>
            ELSE <<"Our top sellers right now: ">> \o joinRated(bestSellers)
                 \o <<"! Would you like details on any of these?">>)

bestReply(catalog, bn) ==
    LET bestSellers == slice0(sortByRatingTimesReviews(SelectSeq(catalog, inStock)), 3)
    IN  Reply("best", IF bn THEN "bn" ELSE "en", "", namedAll(bestSellers),
            IF bn
            THEN <<"(bn) Our best sellers: ">> \o joinRated(bestSellers) \o <<"!">>
            ELSE <<"Our top sellers right now: ">> \o joinRated(bestSellers)
                 \o <<"! Would you like details on any of these?">>)

\* a default reply that is the joined list alone
defaultReply_listOnly(catalog, bn) ==
    LET topPicks == slice0(sortByRating(SelectSeq(catalog, inStock)), 3)
    IN  Reply("default", IF bn THEN "bn" ELSE "en", "", namedAll(topPicks), joinPriced(topPicks))

defaultReply(catalog, bn) ==
    LET topPicks == slice0(sortByRating(SelectSeq(catalog, inStock)), 3)
    IN  Reply("default", IF bn THEN "bn" ELSE "en", "", namedAll(topPicks),
            IF bn
            THEN <<"(bn) Sorry, I did not quite understand. See our popular products: ">>
                 \o joinPriced(topPicks)
                 \o <<"! (bn) Tell me the age, budget or interest and I will find the best.">>
            ELSE <<"I'd love to help! Here are some popular picks: ">>
                 \o joinPriced(topPicks)
                 \o <<". Tell me the recipient's age, interests, or budget and ",
                      "I'll find the perfect match!">>)

\* the branches of localChatFallback behind the category branch
conversationalReply(catalog, input, bn) ==
    LET lang == IF bn THEN "bn" ELSE "en"
    IN  IF MatchesBounded(input, ToddlerAlts)
        THEN Reply("ageToddler", lang, "", <<RainbowStacker, CuddlyElephant>>,
                 <<IF bn THEN "(bn) For little children: " ELSE "For little ones, I'd recommend ",
                   "**Rainbow Stacker** (Rs1,199)", "**Cuddly Elephant** (Rs1,699)">>)
        ELSE IF \/ MatchesBoundedThenBounded(input, PreschoolAlts, YearAlts)
                \/ MatchesBoundedThenBounded(input, YearAlts, PreschoolDigitAlts)
        THEN Reply("agePreschool", lang, "", <<CastleBuilderSet, MegaArtKit, SurpriseGiftBox>>,
                 <<IF bn THEN "(bn) For children of 3-6 years: " ELSE "For ages 3-6: ",
                   "**Castle Builder Set** (Rs7,999)", "**Mega Art Kit** (Rs2,999)",
                   "**Surprise Gift Box** (Rs1,699)">>)
        ELSE IF MatchesBounded(input, OlderAlts)
        THEN Reply("ageOlder", lang, "", <<SuperGalacticRobot, SpeedRacerRC, MedievalCastle>>,
                 <<IF bn THEN "(bn) For older children: " ELSE "For older kids: ",
                   "**Super Galactic Robot** (Rs3,999)", "**Speed Racer RC** (Rs3,499)",
                   "**Medieval Castle** (Rs3,899)">>)
        ELSE IF \/ MatchesBounded(input, GreetingAlts)
                \/ \E w \in GreetingBengali : includes(input, w)
        THEN Reply("greeting", lang, "", <<>>,
                 <<IF bn THEN "(bn) Namaskar! I am GiftBot. How can I help you?"
                         ELSE "Hey there! Welcome to SarkarBrothers'! I can help you find the perfect toy. What are you looking for?">>)
        ELSE IF \/ MatchesBounded(input, ThanksAlts)
                \/ \E w \in ThanksBengali : includes(input, w)
        THEN Reply("thanks", lang, "", <<>>,
                 <<IF bn THEN "(bn) Thank you! Glad you shopped at SarkarBrothers'. Come again!"
                         ELSE "You're welcome! Happy toy shopping at SarkarBrothers'! Come back anytime!">>)
        ELSE IF MatchesBounded(input, BestAlts)
        THEN bestReply(catalog, bn)
        ELSE IF MatchesBounded(input, ShippingAlts)
        THEN Reply("shipping", lang, "", <<>>,
                 <<IF bn THEN "(bn) Free delivery on orders above Rs2,000! Arrives in 3-5 business days. Easy returns within 7 days."
                         ELSE "Free shipping on orders above Rs2,000! Standard delivery takes 3-5 business days. Easy returns within 7 days. You can also order via WhatsApp!">>)
        ELSE defaultReply(catalog, bn)

\* localChatFallback with the category block moved before the price block
localChatFallbackOver_categoryFirst(catalog, msg, lang) ==
    LET input == toLowerCase(msg)
        bn == lang = "bn"
        digits == priceMatch(input)
        matchedCategory == matchedCategoryOf(input)
    IN  IF matchedCategory # NULL /\ Len(categoryProducts(catalog, matchedCategory)) > 0
        THEN categoryReply(catalog, matchedCategory, bn)
        ELSE IF digits # <<>> THEN priceReply(catalog, digits, bn)
        ELSE conversationalReply(catalog, input, bn)

\* localChatFallback over a given catalog
localChatFallbackOver(catalog, msg, lang) ==
    LET input == toLowerCase(msg)
        bn == lang = "bn"
        digits == priceMatch(input)
        matchedCategory == matchedCategoryOf(input)
    IN  IF digits # <<>> THEN priceReply(catalog, digits, bn)
        ELSE IF matchedCategory # NULL /\ Len(categoryProducts(catalog, matchedCategory)) > 0
        THEN categoryReply(catalog, matchedCategory, bn)
        ELSE conversationalReply(catalog, input, bn)

localChatFallback(msg, lang) == localChatFallbackOver(products, msg, lang)

\* ------------------------------------------------------------------- inputs

\* the longest catalog, and the most phrases in a message
MaxCatalog == 4
MaxWords == 2

\* Products to build catalogs from: name, category, price, rating in tenths,
\* reviews, stock.  Two ratings tie, rating and rating * reviews rank the
\* plushies differently, and one product is out of stock.
Pool ==
    << [name |-> "Rainbow Stacker", category |-> "Educational", price |-> 1199,
        rating |-> 48, reviews |-> 120, stock |-> 5],
       [name |-> "Cuddly Elephant", category |-> "Plushies", price |-> 1699,
        rating |-> 47, reviews |-> 85, stock |-> 3],
       [name |-> "Cuddly Brown Bear", category |-> "Plushies", price |-> 2199,
        rating |-> 49, reviews |-> 60, stock |-> 4],
       [name |-> "Plush Bunny", category |-> "Plushies", price |-> 1899,
        rating |-> 47, reviews |-> 90, stock |-> 2],
       [name |-> "Soft Kitten", category |-> "Plushies", price |-> 1299,
        rating |-> 44, reviews |-> 300, stock |-> 6],
       [name |-> "Super Galactic Robot", category |-> "Robots", price |-> 3999,
        rating |-> 50, reviews |-> 150, stock |-> 0] >>

\* the elements of Pool at the indices in S, in Pool's order
RECURSIVE PoolAt(_)
PoolAt(S) ==
    IF S = {} THEN <<>>
    ELSE LET i == CHOOSE x \in S : \A y \in S : x <= y
         IN  <<Pool[i]>> \o PoolAt(S \ {i})

Catalogs == {PoolAt(S) : S \in {T \in SUBSET (1..Len(Pool)) : Cardinality(T) <= MaxCatalog}}

\* Phrases a message is made of.  Between them they reach every branch of the
\* responder, tie two categories ("stack" with "cute party") and let one
\* category win over an earlier one ("stack" with "plush teddy").
Vocabulary ==
    << <<"p","l","u","s","h"," ","t","e","d","d","y">>, <<"c","u","t","e"," ","p","a","r","t","y">>, <<"s","t","a","c","k">>, <<"u","n","d","e","r"," ","Rs","2","0","0","0">>, <<"b","u","d","g","e","t"," ","1","5","0","0">>,
       <<"t","o","d","d","l","e","r">>, <<"5"," ","y","e","a","r">>, <<"k","i","d">>, <<"h","i">>, <<"T","h","a","n","k"," ","y","o","u">>, <<"b","e","s","t">>, <<"s","h","i","p">> >>

\* the phrases at the indices in S, in the order of Vocabulary, joined by spaces
RECURSIVE JoinWords(_)
JoinWords(S) ==
    IF S = {} THEN <<>>
    ELSE LET i == CHOOSE x \in S : \A y \in S : x <= y
         IN  IF S = {i} THEN Vocabulary[i]
             ELSE Vocabulary[i] \o <<" ">> \o JoinWords(S \ {i})

Messages ==
    {JoinWords(S) : S \in {T \in SUBSET (1..Len(Vocabulary)) : Cardinality(T) <= MaxWords}}

Languages == {"en", "bn"}

NoReply == Reply("none", "", "", <<>>, <<>>)

\* The promise an entry point returns: pending, resolved by a source ("local",
\* or the strategy that won) with a reply of the local responder or with a
\* string (value), or rejected with an error.
Pending ==
    [status |-> "pending", source |-> "", reply |-> NoReply, value |-> <<>>, error |-> ""]

Resolved(source, localReply, value) ==
    [status |-> "resolved", source |-> source, reply |-> localReply, value |-> value,
     error |-> ""]

Rejected(error) ==
    [status |-> "rejected", source |-> "", reply |-> NoReply, value |-> <<>>,
     error |-> error]

\* no earlier call
NoRun == [ran |-> FALSE, outcomes |-> <<>>, result |-> Pending]

\* a strategy invoked with a request, and what came back from one
Call(strategy, request) == [strategy |-> strategy, request |-> request]

Outcome(what, data) == [kind |-> what, data |-> data]

\* a call of console.warn or console.error: its first argument and, where that
\* is a template, the model it names
Log(level, text, model) == [level |-> level, text |-> text, model |-> model]

\* the console after a try whose await gave response: the catch block logs
caught(response, entry) ==
    IF response.kind = "throw" THEN Append(console, entry) ELSE console

NoFile == [bytes |-> <<>>, type |-> ""]

\* the default of the size parameter
DefaultSize == <<"1","0","2","4","x","1","0","2","4">>

\* the service module with no request made
serviceIdle ==
    /\ API_KEY = ""
    /\ ai = NULL
    /\ products = <<>>
    /\ kind = "none"
    /\ message = <<>>
    /\ language = "en"
    /\ size = DefaultSize
    /\ imageFile = NoFile
    /\ history = <<>>
    /\ settled = FALSE
    /\ fired = <<>>
    /\ elapsed = 0
    /\ console = <<>>
    /\ pc = "idle"
    /\ calls = <<>>
    /\ outcomes = <<>>
    /\ result = Pending
    /\ previous = NoRun

\* ------------------------------------------- the local responder on its own

InitLocal ==
    /\ API_KEY = ""
    /\ ai = NULL
    /\ products \in Catalogs
    /\ kind = "local"
    /\ message \in Messages
    /\ language \in Languages
    /\ size = DefaultSize
    /\ imageFile = NoFile
    /\ history = <<>>
    /\ settled = FALSE
    /\ fired = <<>>
    /\ elapsed = 0
    /\ console = <<>>
    /\ pc = "idle"
    /\ calls = <<>>
    /\ outcomes = <<>>
    /\ result = Pending
    /\ previous = NoRun
    /\ uiIdle

\* localChatFallback(message, language) is called and returns
Respond ==
    /\ kind = "local"
    /\ pc = "idle"
    /\ result' = Resolved("local", localChatFallback(message, language), <<>>)
    /\ pc' = "done"
    /\ UNCHANGED <<uiVars, previous, API_KEY, ai, products, kind, message, language, size, imageFile, history, settled, fired, elapsed, console, calls, outcomes>>

NextLocal == Respond

SpecLocal == InitLocal /\ [][NextLocal]_vars

\* ------------------------------------------------------ the provider client

PlaceholderKey == "dummy_api_key_replace_me"

Keys == {"", PlaceholderKey, "AIza-configured"}

\* an initialisation that does not know the placeholder key
initAi_anyKey(key, constructorThrows) ==
    IF key # "" /\ ~constructorThrows THEN "GoogleGenAI" ELSE NULL

\* the module's initialisation: the client exists when a real key is configured
\* and the constructor did not throw
initAi(key, constructorThrows) ==
    IF key # "" /\ key # PlaceholderKey /\ ~constructorThrows THEN "GoogleGenAI" ELSE NULL

\* !API_KEY || API_KEY === 'dummy_api_key_replace_me' || !ai
noCredential == API_KEY = "" \/ API_KEY = PlaceholderKey \/ ai = NULL

\* --------------------------------------------------------- chat and voice

\* what ai.models.generateContent can do: throw, answer without text, or answer
\* with a text
RemoteTexts ==
    { <<>>, <<" ">>, <<"\n", " ">>, <<"o","k">>, <<" ", "T", "r", "y", " ", "i", "t", "!", "\n">> }

TextResponses ==
    {Outcome("throw", <<>>), Outcome("undefined", <<>>)}
        \cup {Outcome("text", t) : t \in RemoteTexts}

\* const text = response.text?.trim(); if (text && text.length > 0) return text;
\* return localChatFallback(...), also from the catch block
textOrFallback(response) ==
    IF response.kind = "text" /\ Len(trim(response.data)) > 0
    THEN Resolved("remote", NoReply, trim(response.data))
    ELSE Resolved("local", localChatFallback(message, language), <<>>)

\* { role, parts: [{ text }] }, an element of contents; a ChatMessage is the same
Turn(who, text) == [role |-> who, text |-> text]

langInstruction(lang) ==
    IF lang = "bn" THEN <<"\n\nIMPORTANT: Reply strictly in Bengali (Bangla) language.">> ELSE <<>>

\* the two turns contents starts with: the system prompt as a user turn, and
\* the greeting of the bot
preamble(lang) ==
    << Turn("user", <<"SYSTEM_PROMPT">> \o langInstruction(lang)),
       Turn("model", IF lang = "bn"
                     THEN <<"U+09A8U+09AEU+09B8U+09CDU+0995U+09BEU+09B0! ...">>
                     ELSE <<"Hi there! ... What can I do for you today?">>) >>

\* how many turns of the history are forwarded
recentTurns == 20

\* list.slice(0, n) where the last n elements were meant
sliceLast_fromStart(list, n) ==
    SubSeq(list, 1, IF Len(list) < n THEN Len(list) ELSE n)

\* list.slice(-n)
sliceLast(list, n) ==
    SubSeq(list, (IF Len(list) - n < 0 THEN 0 ELSE Len(list) - n) + 1, Len(list))

\* the loop over recentHistory pushing { role, parts } for each message
pushed(recentHistory) ==
    [k \in 1..Len(recentHistory) |->
        Turn(IF recentHistory[k].role = "user" THEN "user" ELSE "model", recentHistory[k].text)]

\* the contents generateGiftSuggestions sends
contents(msg, hist, lang) ==
    preamble(lang) \o pushed(sliceLast(hist, recentTurns)) \o <<Turn("user", msg)>>

\* generateGiftSuggestions up to its await
generateGiftSuggestions ==
    /\ kind = "chat"
    /\ pc = "idle"
    /\ IF noCredential
       THEN /\ result' = Resolved("local", localChatFallback(message, language), <<>>)
            /\ pc' = "done"
            /\ UNCHANGED calls
       ELSE /\ calls' = Append(calls, Call("gemini-2.0-flash", contents(message, history, language)))
            /\ pc' = "generateContent"
            /\ UNCHANGED result
    /\ UNCHANGED <<uiVars, previous, API_KEY, ai, products, kind, message, language, size, imageFile, history, settled, fired, elapsed, console, outcomes>>

\* generateGiftSuggestions from its await on
generateGiftSuggestionsSettles ==
    /\ kind = "chat"
    /\ pc = "generateContent"
    /\ \E response \in TextResponses :
           /\ outcomes' = Append(outcomes, response)
           /\ console' = caught(response, Log("error", "Gemini API Error:", ""))
           /\ result' = textOrFallback(response)
    /\ pc' = "done"
    /\ UNCHANGED <<uiVars, previous, API_KEY, ai, products, kind, message, language, size, imageFile, history, settled, fired, elapsed, calls>>

\* generateVoiceResponse answering in English whatever the language
generateVoiceResponse_inEnglish ==
    /\ kind = "voice"
    /\ pc = "idle"
    /\ IF noCredential
       THEN /\ result' = Resolved("local", localChatFallback(message, "en"), <<>>)
            /\ pc' = "done"
            /\ UNCHANGED calls
       ELSE /\ calls' = Append(calls, Call("gemini-2.0-flash", message))
            /\ pc' = "generateContent"
            /\ UNCHANGED result
    /\ UNCHANGED <<uiVars, previous, API_KEY, ai, products, kind, message, language, size, imageFile, history, settled, fired, elapsed, console, outcomes>>

\* generateVoiceResponse up to its await
generateVoiceResponse ==
    /\ kind = "voice"
    /\ pc = "idle"
    /\ IF noCredential
       THEN /\ result' = Resolved("local", localChatFallback(message, language), <<>>)
            /\ pc' = "done"
            /\ UNCHANGED calls
       ELSE /\ calls' = Append(calls, Call("gemini-2.0-flash", message))
            /\ pc' = "generateContent"
            /\ UNCHANGED result
    /\ UNCHANGED <<uiVars, previous, API_KEY, ai, products, kind, message, language, size, imageFile, history, settled, fired, elapsed, console, outcomes>>

\* generateVoiceResponse from its await on
generateVoiceResponseSettles ==
    /\ kind = "voice"
    /\ pc = "generateContent"
    /\ \E response \in TextResponses :
           /\ outcomes' = Append(outcomes, response)
           /\ console' = caught(response, Log("error", "Voice response error:", ""))
           /\ result' = textOrFallback(response)
    /\ pc' = "done"
    /\ UNCHANGED <<uiVars, previous, API_KEY, ai, products, kind, message, language, size, imageFile, history, settled, fired, elapsed, calls>>

\* the messages and catalogs of the chat requests: one phrase at most (the
\* empty message among them) or white space only, and the first products of
\* Pool
ChatMessages ==
    {JoinWords(S) : S \in {T \in SUBSET (1..Len(Vocabulary)) : Cardinality(T) <= 1}}
    \cup {<<" ", "\t", " ">>}

\* the longest history passed
MaxHistory == 22

\* the k-th message of a history of alternating roles begun by first
HistoryTurn(k, first) ==
    Turn(IF (k % 2 = 1) = (first = "user") THEN "user" ELSE "model", <<"turn ", ToString(k)>>)

\* the histories of the chat requests: none, short ones, of 20 and more
\* turns, and a long one of user messages alone
Histories ==
    { [k \in 1..n |-> HistoryTurn(k, first)] :
          n \in {0, 1, 2, recentTurns, recentTurns + 1, MaxHistory}, first \in {"user", "model"} }
    \cup { [k \in 1..MaxHistory |-> Turn("user", <<"turn ", ToString(k)>>)] }

ChatCatalogs == {PoolAt(1..n) : n \in 0..MaxCatalog}

InitChat ==
    /\ API_KEY \in Keys
    /\ \E constructorThrows \in BOOLEAN : ai = initAi(API_KEY, constructorThrows)
    /\ products \in ChatCatalogs
    /\ kind \in {"chat", "voice"}
    /\ message \in ChatMessages
    /\ language \in Languages
    /\ size = DefaultSize
    /\ imageFile = NoFile
    /\ history \in (IF kind = "chat" THEN Histories ELSE {<<>>})
    /\ settled = FALSE
    /\ fired = <<>>
    /\ elapsed = 0
    /\ console = <<>>
    /\ pc = "idle"
    /\ calls = <<>>
    /\ outcomes = <<>>
    /\ result = Pending
    /\ previous = NoRun
    /\ uiIdle

NextChat ==
    \/ generateGiftSuggestions
    \/ generateGiftSuggestionsSettles
    \/ generateVoiceResponse
    \/ generateVoiceResponseSettles

SpecChat == InitChat /\ [][NextChat]_vars

\* ------------------------------------------------ search recommendations

\* String.prototype.split(',')
RECURSIVE split(_)
split(s) ==
    LET commas == {i \in 1..Len(s) : s[i] = ","}
    IN  IF commas = {} THEN <<s>>
        ELSE LET c == CHOOSE i \in commas : \A j \in commas : i <= j
             IN  <<SubSeq(s, 1, c - 1)>> \o split(SubSeq(s, c + 1, Len(s)))

\* ['Educational', 'Plushies', 'Outdoor Fun']
defaultCategories == << <<"E","d","u","c","a","t","i","o","n","a","l">>, <<"P","l","u","s","h","i","e","s">>, <<"O","u","t","d","o","o","r"," ","F","u","n">> >>

nonBlank(entry) == Len(entry) > 0

\* responseText.split(',').map(s => s.trim()).filter(s => s.length > 0).slice(0, 4)
parseCategories(responseText) ==
    LET entries == split(responseText)
    IN  slice0(SelectSeq([i \in 1..Len(entries) |-> trim(entries[i])], nonBlank), 4)

\* the texts the provider answers a search with
SearchTexts ==
    { <<"R","o","b","o","t","s",","," ","E","d","u","c","a","t","i","o","n","a","l",","," ","O","u","t","d","o","o","r"," ","F","u","n">>,
      <<"P","l","u","s","h","i","e","s">>,
      <<" ","G","i","f","t","s"," ",",","A","r","t","s"," ","&"," ","C","r","a","f","t","s",",",","," ","R","o","b","o","t","s"," ">>,
      <<"R","o","b","o","t","s",",","E","d","u","c","a","t","i","o","n","a","l",",","P","l","u","s","h","i","e","s",",","G","i","f","t","s",",","O","u","t","d","o","o","r"," ","F","u","n">>,
      <<"R","o","b","o","t","s",","," ","P","l","u","s","h","i","e","s",","," ","R","o","b","o","t","s">>,
      <<"T","o","y","s",","," ","R","o","b","o","t","s">>,
      <<"r","o","b","o","t","s">>,
      <<"S","u","r","e","!"," ","R","o","b","o","t","s">>,
      <<" ",","," ",",">>,
      <<" ", "\n">>,
      <<>> }

\* what generateContent can do for a search: throw, answer without text, or
\* answer with a text
SearchResponses ==
    {Outcome("throw", <<>>), Outcome("noText", <<>>)}
    \cup {Outcome("text", t) : t \in SearchTexts}

\* the end of generateSearchRecommendations with the last test left out
searchResult_noDefault(response) ==
    IF response.kind = "text" /\ response.data # <<>>
    THEN Resolved("remote", NoReply, parseCategories(response.data))
    ELSE Resolved("default", NoReply, defaultCategories)

\* generateSearchRecommendations after its await: the parsed categories, or the
\* default on a throw, no text, an empty text or no category
searchResult(response) ==
    IF /\ response.kind = "text"
       /\ response.data # <<>>
       /\ Len(parseCategories(response.data)) > 0
    THEN Resolved("remote", NoReply, parseCategories(response.data))
    ELSE Resolved("default", NoReply, defaultCategories)

\* generateSearchRecommendations up to its await
generateSearchRecommendations ==
    /\ kind = "search"
    /\ pc = "idle"
    /\ IF noCredential
       THEN /\ result' = Resolved("default", NoReply, defaultCategories)
            /\ pc' = "done"
            /\ UNCHANGED calls
       ELSE /\ calls' = Append(calls, Call("gemini-2.0-flash", message))
            /\ pc' = "generateContent"
            /\ UNCHANGED result
    /\ UNCHANGED <<uiVars, previous, API_KEY, ai, products, kind, message, language, size, imageFile, history, settled, fired, elapsed, console, outcomes>>

\* generateSearchRecommendations from its await on
generateSearchRecommendationsSettles ==
    /\ kind = "search"
    /\ pc = "generateContent"
    /\ \E response \in SearchResponses :
           /\ outcomes' = Append(outcomes, response)
           /\ console' = caught(response, Log("error", "AI search recommendation error:", ""))
           /\ result' = searchResult(response)
    /\ pc' = "done"
    /\ UNCHANGED <<uiVars, previous, API_KEY, ai, products, kind, message, language, size, imageFile, history, settled, fired, elapsed, calls>>

SearchQueries == { <<"r","o","b","o","t">>, <<"s","o","f","t"," ","t","o","y">>, <<>> }

InitSearch ==
    /\ API_KEY \in Keys
    /\ \E constructorThrows \in BOOLEAN : ai = initAi(API_KEY, constructorThrows)
    /\ products = <<>>
    /\ kind = "search"
    /\ message \in SearchQueries
    /\ language \in Languages
    /\ size = DefaultSize
    /\ imageFile = NoFile
    /\ history = <<>>
    /\ settled = FALSE
    /\ fired = <<>>
    /\ elapsed = 0
    /\ console = <<>>
    /\ pc = "idle"
    /\ calls = <<>>
    /\ outcomes = <<>>
    /\ result = Pending
    /\ previous = NoRun
    /\ uiIdle

NextSearch ==
    \/ generateSearchRecommendations
    \/ generateSearchRecommendationsSettles

SpecSearch == InitSearch /\ [][NextSearch]_vars

\* ------------------------------------------------ image generation, editing

\* A value of type string | null: a string is the sequence of its pieces, and
\* null is NoImage.
NoImage == <<>>

\* what generateImages / editImage can give back: a throw, or a response whose
\* data is generatedImages as the imageBytes of each image ("" where the image
\* or its bytes are missing)
ImagenResponses ==
    { Outcome("throw", <<>>),
      Outcome("response", <<>>),
      Outcome("response", <<"">>),
      Outcome("response", <<"iVBORw0KGgo=">>),
      Outcome("response", <<"R0lGODlhAQABAAAAACw=", "iVBORw0KGgo=">>) }

\* a part of candidates[0].content.parts: a text part has no inlineData
TextPart == [data |-> "", mimeType |-> ""]

InlinePart(data, mimeType) == [data |-> data, mimeType |-> mimeType]

\* what generateContent can give back to an image request: a throw, or a
\* response whose data is candidates[0].content.parts (empty where there are
\* no candidates or no parts)
GeminiResponses ==
    { Outcome("throw", <<>>),
      Outcome("response", <<>>),
      Outcome("response", <<TextPart>>),
      Outcome("response", <<InlinePart("", "image/png")>>),
      Outcome("response", <<InlinePart("/9j/4AAQSkZJRg==", "image/jpeg")>>),
      Outcome("response", <<TextPart, InlinePart("iVBORw0KGgo=", "")>>),
      Outcome("response", <<InlinePart("UklGRg==", "image/webp"), InlinePart("iVBORw0KGgo=", "image/png")>>) }

\* the body of tryImagenGenerate after its await
imagenResult(response) ==
    IF response.kind = "throw" THEN NoImage
    ELSE IF Len(response.data) > 0 /\ response.data[1] # ""
    THEN <<"data:image/png;base64,", response.data[1]>>
    ELSE NoImage

\* the body of tryImagenEdit after its await
imagenEditResult(response) ==
    IF response.kind = "throw" THEN NoImage
    ELSE IF Len(response.data) > 0 /\ response.data[1] # ""
    THEN <<"data:image/png;base64,", response.data[1]>>
    ELSE NoImage

\* the loop over the parts of a generateContent response: the first part with
\* inline data, its mime type defaulting to image/png
geminiResult(response) ==
    IF response.kind = "throw" THEN NoImage
    ELSE LET withData == {i \in 1..Len(response.data) : response.data[i].data # ""}
         IN  IF withData = {} THEN NoImage
             ELSE LET part == response.data[CHOOSE i \in withData : \A j \in withData : i <= j]
                      mimeType == IF part.mimeType # "" THEN part.mimeType ELSE "image/png"
                  IN  <<"data:", mimeType, ";base64,", part.data>>

\* const models of tryGeminiImageGenerate and tryGeminiImageEdit, swapped
geminiModels_swapped == <<"gemini-2.0-flash-exp", "gemini-2.0-flash-preview-image-generation">>

\* const models of tryGeminiImageGenerate and tryGeminiImageEdit
geminiModels == <<"gemini-2.0-flash-preview-image-generation", "gemini-2.0-flash-exp">>

\* the position of a request awaiting generateContent with geminiModels[i]
GeminiPc == <<"generateContent1", "generateContent2">>

\* encodeURIComponent leaves these characters alone
Unreserved == LowerLetters \cup UpperLetters \cup Digits \cup {"-", "_", ".", "!", "~", "*", "'", "(", ")"}

\* the escape of the other ASCII characters a prompt is made of here
PercentEncoded(c) ==
    CASE c = " " -> "%20" [] c = "," -> "%2C" [] c = "&" -> "%26" [] c = "?" -> "%3F"
      [] c = "/" -> "%2F" [] c = "=" -> "%3D" [] c = "#" -> "%23" [] c = "%" -> "%25"
      [] c = ":" -> "%3A" [] c = "+" -> "%2B"

encodeURIComponent(s) ==
    [i \in 1..Len(s) |-> IF s[i] \in Unreserved THEN s[i] ELSE PercentEncoded(s[i])]

\* size.split('x').map(Number)
dimensions(s) ==
    LET x == CHOOSE i \in 1..Len(s) : s[i] = "x" /\ \A j \in 1..(i - 1) : s[j] # "x"
    IN  <<parseInt(SubSeq(s, 1, x - 1)), parseInt(SubSeq(s, x + 1, Len(s)))>>

min(a, b) == IF a < b THEN a ELSE b

\* the url with the time of the call in its path as well
pollinationsUrl_timeInPath(prompt, width, height, now) ==
    <<"https://image.pollinations.ai/prompt/", ToString(now), "/">>
    \o encodeURIComponent(prompt \o <<","," ","c","o","l","o","r","f","u","l"," ","k","i","d","s"," ","t","o","y"," ","i","l","l","u","s","t","r","a","t","i","o","n",","," ","b","r","i","g","h","t"," ","c","h","e","e","r","f","u","l",","," ","w","h","i","t","e"," ","b","a","c","k","g","r","o","u","n","d">>)
    \o <<"?width=", ToString(min(width, 1024)), "&height=", ToString(min(height, 1024)),
         "&nologo=true&seed=", ToString(now)>>

\* the url tryPollinationsGenerate builds at time now
pollinationsUrl(prompt, width, height, now) ==
    <<"https://image.pollinations.ai/prompt/">>
    \o encodeURIComponent(prompt \o <<","," ","c","o","l","o","r","f","u","l"," ","k","i","d","s"," ","t","o","y"," ","i","l","l","u","s","t","r","a","t","i","o","n",","," ","b","r","i","g","h","t"," ","c","h","e","e","r","f","u","l",","," ","w","h","i","t","e"," ","b","a","c","k","g","r","o","u","n","d">>)
    \o <<"?width=", ToString(min(width, 1024)), "&height=", ToString(min(height, 1024)),
         "&nologo=true&seed=", ToString(now)>>

Base64Alphabet ==
    <<"A","B","C","D","E","F","G","H","I","J","K","L","M","N","O","P","Q","R","S","T","U","V","W","X","Y","Z",
      "a","b","c","d","e","f","g","h","i","j","k","l","m","n","o","p","q","r","s","t","u","v","w","x","y","z",
      "0","1","2","3","4","5","6","7","8","9","+","/">>

\* btoa of the binary string made of bytes
RECURSIVE btoa(_)
btoa(bytes) ==
    IF bytes = <<>> THEN <<>>
    ELSE LET b1 == bytes[1]
             b2 == IF Len(bytes) > 1 THEN bytes[2] ELSE 0
             b3 == IF Len(bytes) > 2 THEN bytes[3] ELSE 0
         IN  << Base64Alphabet[(b1 \div 4) + 1],
                Base64Alphabet[((b1 % 4) * 16 + (b2 \div 16)) + 1],
                IF Len(bytes) > 1 THEN Base64Alphabet[((b2 % 16) * 4 + (b3 \div 64)) + 1] ELSE "=",
                IF Len(bytes) > 2 THEN Base64Alphabet[(b3 % 64) + 1] ELSE "=" >>
             \o (IF Len(bytes) > 3 THEN btoa(SubSeq(bytes, 4, Len(bytes))) ELSE <<>>)

\* imageFile.type || 'image/png'
mimeTypeOf(file) == IF file.type # "" THEN file.type ELSE "image/png"

\* what a strategy is called with: its prompt and, for an edit, the image
ImageRequest(prompt, base64, mimeType) == [prompt |-> prompt, image |-> base64, mimeType |-> mimeType]

generateError ==
    "All image generation services are currently unavailable. Please try again in a moment."

editError == "Image editing failed. Please check your internet connection and try again."

\* the clock readings Date.now() is drawn from (two readings that fit 32 bits)
Clock == {1762100000, 1762100001}

\* the call of tryPollinationsGenerate(prompt, width, height) up to its promise
callPollinations(prompt, width, height) ==
    /\ \E now \in Clock :
           calls' = Append(calls, Call("pollinations", pollinationsUrl(prompt, width, height, now)))
    /\ pc' = "pollinations"
    /\ UNCHANGED result

\* the call of generateContent by tryGeminiImageGenerate with geminiModels[i]
callGeminiImageGenerate(i) ==
    /\ calls' = Append(calls, Call(geminiModels[i],
                    ImageRequest(<<"Generate a high-quality image of: ">> \o message
                                 \o <<". Make it colorful, kid-friendly, and suitable for a toy shop.">>,
                                 <<>>, "")))
    /\ pc' = GeminiPc[i]
    /\ UNCHANGED result

\* the call of generateContent by tryGeminiImageEdit with geminiModels[i]
callGeminiImageEdit(i) ==
    /\ calls' = Append(calls, Call(geminiModels[i],
                    ImageRequest(<<"Edit this image: ">> \o message
                                 \o <<". Keep it kid-friendly and suitable for a toy shop.">>,
                                 btoa(imageFile.bytes), mimeTypeOf(imageFile))))
    /\ pc' = GeminiPc[i]
    /\ UNCHANGED result

\* generateImageWithPrompt up to its first await: Imagen when there is a
\* client, the keyless service otherwise
generateImageWithPrompt ==
    /\ kind = "generate"
    /\ pc = "idle"
    /\ IF ai # NULL
       THEN /\ calls' = Append(calls, Call("imagen-3.0-generate-002",
                            ImageRequest(message \o <<". Colorful, kid-friendly, toy shop style.">>, <<>>, "")))
            /\ pc' = "generateImages"
            /\ UNCHANGED result
       ELSE callPollinations(message, dimensions(size)[1], dimensions(size)[2])
    /\ UNCHANGED <<uiVars, previous, API_KEY, ai, products, kind, message, language, size, imageFile, history, settled, fired, elapsed, console, outcomes>>

\* tryImagenGenerate from its await on, and generateImageWithPrompt up to its
\* next await
tryImagenGenerate ==
    /\ kind = "generate"
    /\ pc = "generateImages"
    /\ \E response \in ImagenResponses :
           /\ outcomes' = Append(outcomes, response)
           /\ console' = caught(response, Log("warn", "Imagen 3 generation failed:", ""))
           /\ IF imagenResult(response) # NoImage
              THEN /\ result' = Resolved("imagen-3.0-generate-002", NoReply, imagenResult(response))
                   /\ pc' = "done"
                   /\ UNCHANGED calls
              ELSE callGeminiImageGenerate(1)
    /\ UNCHANGED <<uiVars, previous, API_KEY, ai, products, kind, message, language, size, imageFile, history, settled, fired, elapsed>>

\* tryGeminiImageGenerate from an await of its loop on: the next model, or back
\* in generateImageWithPrompt the keyless service
tryGeminiImageGenerate ==
    /\ kind = "generate"
    /\ \E i \in 1..Len(geminiModels) :
           /\ pc = GeminiPc[i]
           /\ \E response \in GeminiResponses :
                  /\ outcomes' = Append(outcomes, response)
                  /\ console' = caught(response, Log("warn", "Gemini image gen with ${model} failed:", geminiModels[i]))
                  /\ IF geminiResult(response) # NoImage
                     THEN /\ result' = Resolved(geminiModels[i], NoReply, geminiResult(response))
                          /\ pc' = "done"
                          /\ UNCHANGED calls
                     ELSE IF i < Len(geminiModels)
                     THEN callGeminiImageGenerate(i + 1)
                     ELSE callPollinations(message, dimensions(size)[1], dimensions(size)[2])
    /\ UNCHANGED <<uiVars, previous, API_KEY, ai, products, kind, message, language, size, imageFile, history, settled, fired, elapsed>>

\* the delay of the setTimeout of tryPollinationsGenerate, in ms
timeoutDelay == 60000

\* the length in ms of one step of elapsed
TimeUnit == 20000

\* the reading of elapsed at which the timer of the promise runs
Deadline == timeoutDelay \div TimeUnit

\* how long a request is followed after its promise was made
MaxElapsed == 4

\* tryPollinationsGenerate has been called: its promise and its timer exist
promised == calls # <<>> /\ calls[Len(calls)].strategy = "pollinations"

\* what the catch of generateImageWithPrompt / editImageWithPrompt logs
keylessFailureLog ==
    Log("error", IF kind = "generate" THEN "Pollinations fallback also failed:"
                 ELSE "Pollinations edit fallback also failed:", "")

\* a callback running without the test of settled
settle_untested(event) ==
    /\ fired' = Append(fired, event)
    /\ settled' = TRUE
    /\ outcomes' = IF settled THEN outcomes ELSE Append(outcomes, Outcome(event, <<>>))
    /\ IF event = "load"
       THEN /\ result' = Resolved("pollinations", NoReply, calls[Len(calls)].request)
            /\ UNCHANGED console
       ELSE /\ result' = Rejected(IF kind = "generate" THEN generateError ELSE editError)
            /\ console' = Append(console, keylessFailureLog)
    /\ pc' = "done"

\* a callback of the promise running: if (!settled) { settled = true; ... },
\* and on to the end of generateImageWithPrompt / editImageWithPrompt when that
\* settled the promise
settle(event) ==
    /\ fired' = Append(fired, event)
    /\ IF ~settled
       THEN /\ settled' = TRUE
            /\ outcomes' = Append(outcomes, Outcome(event, <<>>))
            /\ IF event = "load"
               THEN /\ result' = Resolved("pollinations", NoReply, calls[Len(calls)].request)
                    /\ UNCHANGED console
               ELSE /\ result' = Rejected(IF kind = "generate" THEN generateError ELSE editError)
                    /\ console' = Append(console, keylessFailureLog)
            /\ pc' = "done"
       ELSE UNCHANGED <<settled, outcomes, result, console, pc>>

\* the Image element has fired neither of its two events yet
imagePending == \A k \in 1..Len(fired) : fired[k] \notin {"load", "error"}

\* img.onload
onload ==
    /\ promised
    /\ imagePending
    /\ settle("load")
    /\ UNCHANGED <<uiVars, previous, API_KEY, ai, products, kind, message, language, size, imageFile, history, elapsed, calls>>

\* img.onerror
onerror ==
    /\ promised
    /\ imagePending
    /\ settle("error")
    /\ UNCHANGED <<uiVars, previous, API_KEY, ai, products, kind, message, language, size, imageFile, history, elapsed, calls>>

\* the callback of setTimeout(..., 60000), which runs when its delay is over
onTimeout ==
    /\ promised
    /\ elapsed = Deadline
    /\ \A k \in 1..Len(fired) : fired[k] # "timeout"
    /\ settle("timeout")
    /\ UNCHANGED <<uiVars, previous, API_KEY, ai, products, kind, message, language, size, imageFile, history, elapsed, calls>>

\* time passing after the promise was made; it does not pass the deadline
\* before the timer has run
Tick ==
    /\ promised
    /\ elapsed < MaxElapsed
    /\ elapsed = Deadline => \E k \in 1..Len(fired) : fired[k] = "timeout"
    /\ elapsed' = elapsed + 1
    /\ UNCHANGED <<uiVars, previous, API_KEY, ai, products, kind, message, language, size, imageFile, history, settled, fired, console, pc, calls, outcomes, result>>

\* tryPollinationsGenerate from its promise on
tryPollinationsGenerate ==
    \/ onload
    \/ onerror
    \/ onTimeout
    \/ Tick

\* editImageWithPrompt whose keyless prompt carries the source image
editImageWithPrompt_imageInPrompt ==
    /\ kind = "edit"
    /\ pc = "idle"
    /\ IF ai # NULL
       THEN /\ calls' = Append(calls, Call("imagen-3.0-capability-001",
                            ImageRequest(message \o <<". Keep it kid-friendly and suitable for a toy shop.">>,
                                         btoa(imageFile.bytes), mimeTypeOf(imageFile))))
            /\ pc' = "editImage"
            /\ UNCHANGED result
       ELSE callPollinations(message \o <<" ">> \o btoa(imageFile.bytes) \o <<","," ","t","o","y"," ","i","l","l","u","s","t","r","a","t","i","o","n">>,
                             1024, 1024)
    /\ UNCHANGED <<uiVars, previous, API_KEY, ai, products, kind, message, language, size, imageFile, history, settled, fired, elapsed, console, outcomes>>

\* editImageWithPrompt up to its first strategy; the file is one that can be
\* read, so that the await of arrayBuffer() resolves
editImageWithPrompt ==
    /\ kind = "edit"
    /\ pc = "idle"
    /\ IF ai # NULL
       THEN /\ calls' = Append(calls, Call("imagen-3.0-capability-001",
                            ImageRequest(message \o <<". Keep it kid-friendly and suitable for a toy shop.">>,
                                         btoa(imageFile.bytes), mimeTypeOf(imageFile))))
            /\ pc' = "editImage"
            /\ UNCHANGED result
       ELSE callPollinations(message \o <<","," ","t","o","y"," ","i","l","l","u","s","t","r","a","t","i","o","n">>, 1024, 1024)
    /\ UNCHANGED <<uiVars, previous, API_KEY, ai, products, kind, message, language, size, imageFile, history, settled, fired, elapsed, console, outcomes>>

\* tryImagenEdit without its try: what editImage throws reaches the caller
tryImagenEdit_uncaught ==
    /\ kind = "edit"
    /\ pc = "editImage"
    /\ \E response \in ImagenResponses :
           /\ outcomes' = Append(outcomes, response)
           /\ IF response.kind = "throw"
              THEN /\ result' = Rejected("editImage failed")
                   /\ pc' = "done"
                   /\ UNCHANGED calls
              ELSE IF imagenEditResult(response) # NoImage
              THEN /\ result' = Resolved("imagen-3.0-capability-001", NoReply, imagenEditResult(response))
                   /\ pc' = "done"
                   /\ UNCHANGED calls
              ELSE callGeminiImageEdit(1)
    /\ UNCHANGED <<uiVars, previous, API_KEY, ai, products, kind, message, language, size, imageFile, history, settled, fired, elapsed, console>>

\* tryImagenEdit from its await on, and editImageWithPrompt up to its next
\* await
tryImagenEdit ==
    /\ kind = "edit"
    /\ pc = "editImage"
    /\ \E response \in ImagenResponses :
           /\ outcomes' = Append(outcomes, response)
           /\ console' = caught(response, Log("warn", "Imagen edit failed:", ""))
           /\ IF imagenEditResult(response) # NoImage
              THEN /\ result' = Resolved("imagen-3.0-capability-001", NoReply, imagenEditResult(response))
                   /\ pc' = "done"
                   /\ UNCHANGED calls
              ELSE callGeminiImageEdit(1)
    /\ UNCHANGED <<uiVars, previous, API_KEY, ai, products, kind, message, language, size, imageFile, history, settled, fired, elapsed>>

\* tryGeminiImageEdit from an await of its loop on: the next model, or back in
\* editImageWithPrompt the keyless service
tryGeminiImageEdit ==
    /\ kind = "edit"
    /\ \E i \in 1..Len(geminiModels) :
           /\ pc = GeminiPc[i]
           /\ \E response \in GeminiResponses :
                  /\ outcomes' = Append(outcomes, response)
                  /\ console' = caught(response, Log("warn", "Gemini edit with ${model} failed:", geminiModels[i]))
                  /\ IF geminiResult(response) # NoImage
                     THEN /\ result' = Resolved(geminiModels[i], NoReply, geminiResult(response))
                          /\ pc' = "done"
                          /\ UNCHANGED calls
                     ELSE IF i < Len(geminiModels)
                     THEN callGeminiImageEdit(i + 1)
                     ELSE callPollinations(message \o <<","," ","t","o","y"," ","i","l","l","u","s","t","r","a","t","i","o","n">>, 1024, 1024)
    /\ UNCHANGED <<uiVars, previous, API_KEY, ai, products, kind, message, language, size, imageFile, history, settled, fired, elapsed>>

\* the prompts, sizes and files of the image requests
Prompts == { <<"r","e","d"," ","r","o","b","o","t">>, <<"t","e","d","d","y",","," ","b","e","a","r"," ","&"," ","c","o">> }

Sizes == { <<"1","0","2","4","x","1","0","2","4">>, <<"2","0","4","8","x","2","0","4","8">>, <<"4","0","9","6","x","4","0","9","6">> }

Files ==
    { [bytes |-> <<77, 97, 110>>, type |-> "image/jpeg"],
      [bytes |-> <<77, 97>>, type |-> ""],
      [bytes |-> <<255, 216, 255, 224>>, type |-> "image/jpeg"] }

InitImage ==
    /\ API_KEY \in Keys
    /\ \E constructorThrows \in BOOLEAN : ai = initAi(API_KEY, constructorThrows)
    /\ products = <<>>
    /\ kind \in {"generate", "edit"}
    /\ message \in Prompts
    /\ language = "en"
    /\ \/ kind = "generate" /\ size \in Sizes /\ imageFile = NoFile
       \/ kind = "edit" /\ size = DefaultSize /\ imageFile \in Files
    /\ history = <<>>
    /\ settled = FALSE
    /\ fired = <<>>
    /\ elapsed = 0
    /\ console = <<>>
    /\ pc = "idle"
    /\ calls = <<>>
    /\ outcomes = <<>>
    /\ result = Pending
    /\ previous = NoRun
    /\ uiIdle

NextImage ==
    \/ generateImageWithPrompt
    \/ tryImagenGenerate
    \/ tryGeminiImageGenerate
    \/ editImageWithPrompt
    \/ tryImagenEdit
    \/ tryGeminiImageEdit
    \/ tryPollinationsGenerate

SpecImage == InitImage /\ [][NextImage]_vars

\* ------------------------------- src/services/gemini.ts: image generation
\* The module src/services/gemini.ts the pages import has the same
\* tryImagenGenerate and tryGeminiImageGenerate (its lines 56-116), but its
\* keyless strategy fetches the url and reads the body as a data url.

\* what fetch(url), res.blob() and the FileReader give: a rejected fetch, or
\* a response whose data is <<res.status, blob.type, the body in base64, the
\* event of the reader that comes first>>
FetchResponses ==
    { Outcome("throw", <<>>),
      Outcome("response", <<<<"5","0","0">>, <<"t","e","x","t","/","h","t","m","l">>, "", "loadend">>),
      Outcome("response", <<<<"2","0","0">>, <<"t","e","x","t","/","h","t","m","l">>, "PGh0bWw+", "loadend">>),
      Outcome("response", <<<<"2","0","0">>, <<"i","m","a","g","e","/","j","p","e","g">>, "/9j/4AAQSkZJRg==", "error">>),
      Outcome("response", <<<<"2","0","0">>, <<"i","m","a","g","e","/","j","p","e","g">>, "/9j/4AAQSkZJRg==", "loadend">>),
      Outcome("response", <<<<"2","0","0">>, <<"i","m","a","g","e","/","p","n","g">>, "iVBORw0KGgo=", "loadend">>) }

\* res.ok: a status of 200 to 299
ok(status) == parseInt(status) >= 200 /\ parseInt(status) <= 299

\* what tryPollinationsGenerate of src/services/gemini.ts resolves with after
\* its fetch: reader.result, the data url of the blob; NoImage where it throws
\* or rejects
readAsDataURL(response) ==
    IF response.kind = "throw" THEN NoImage
    ELSE IF ~ok(response.data[1]) THEN NoImage
    ELSE IF ~LiteralAt(response.data[2], 1, <<"i","m","a","g","e","/">>) THEN NoImage
    ELSE IF response.data[4] = "error" THEN NoImage
    ELSE <<"data:">> \o response.data[2] \o <<";base64,", response.data[3]>>

servicesGenerateError ==
    "Image generation failed. Please check your internet connection and try again."

\* tryPollinationsGenerate of src/services/gemini.ts from its fetch on, and
\* the end of its generateImageWithPrompt
servicesTryPollinationsGenerate ==
    /\ kind = "generate"
    /\ pc = "pollinations"
    /\ \E response \in FetchResponses :
           /\ outcomes' = Append(outcomes, response)
           /\ IF readAsDataURL(response) # NoImage
              THEN /\ result' = Resolved("pollinations", NoReply, readAsDataURL(response))
                   /\ UNCHANGED console
              ELSE /\ result' = Rejected(servicesGenerateError)
                   /\ console' = Append(console, Log("error", "Pollinations fallback also failed:", ""))
    /\ pc' = "done"
    /\ UNCHANGED <<uiVars, previous, API_KEY, ai, products, kind, message, language, size, imageFile, history, settled, fired, elapsed, calls>>

InitServices == InitImage /\ kind = "generate"

NextServices ==
    \/ generateImageWithPrompt
    \/ tryImagenGenerate
    \/ tryGeminiImageGenerate
    \/ servicesTryPollinationsGenerate

SpecServices == InitServices /\ [][NextServices]_vars

\* ------------------------------------------------- the same request again

\* the caller awaits the entry point and calls it once more with the same
\* arguments: the call starts afresh (settled, the Image and the timer are
\* locals of tryPollinationsGenerate), the console goes on
Again ==
    /\ pc = "done"
    /\ ~previous.ran
    /\ previous' = [ran |-> TRUE, outcomes |-> outcomes, result |-> result]
    /\ pc' = "idle"
    /\ calls' = <<>>
    /\ outcomes' = <<>>
    /\ result' = Pending
    /\ settled' = FALSE
    /\ fired' = <<>>
    /\ elapsed' = 0
    /\ UNCHANGED <<uiVars, API_KEY, ai, products, kind, message, language, size, imageFile, history, console>>

InitRepeat ==
    \/ InitImage /\ kind = "generate" /\ message = <<"r","e","d"," ","r","o","b","o","t">> /\ size = DefaultSize
    \/ InitChat /\ kind = "chat" /\ products = <<>>

NextRepeat ==
    \/ generateImageWithPrompt
    \/ tryImagenGenerate
    \/ tryGeminiImageGenerate
    \/ tryPollinationsGenerate
    \/ generateGiftSuggestions
    \/ generateGiftSuggestionsSettles
    \/ Again

SpecRepeat == InitRepeat /\ [][NextRepeat]_vars

\* ------------------------------------------------- the catalog for the AI

DecimalDigits == <<"0", "1", "2", "3", "4", "5", "6", "7", "8", "9">>

\* `${n}` for a natural number n
RECURSIVE digitsOf(_)
digitsOf(n) ==
    IF n < 10 THEN <<DecimalDigits[n + 1]>>
    ELSE digitsOf(n \div 10) \o <<DecimalDigits[(n % 10) + 1]>>

\* `${p.rating}` for a rating given in tenths: 4.8, 5
ratingText(tenths) ==
    IF tenths % 10 = 0 THEN digitsOf(tenths \div 10)
    ELSE digitsOf(tenths \div 10) \o <<".">> \o digitsOf(tenths % 10)

\* list.join(separator) for a list of strings
RECURSIVE join(_, _)
join(list, separator) ==
    IF list = <<>> THEN <<>>
    ELSE IF Len(list) = 1 THEN list[1]
    ELSE list[1] \o separator \o join(Tail(list), separator)

\* the parts of the line of product p; a missing originalPrice is 0, a missing
\* badge or description is the empty string
parts(p) ==
    << p.name \o <<" ","(","Rs">> \o digitsOf(p.price)
           \o (IF p.originalPrice # 0 THEN <<","," ","w","a","s"," ","Rs">> \o digitsOf(p.originalPrice) ELSE <<>>)
           \o <<")">>,
       <<"C","a","t","e","g","o","r","y",":"," ">> \o p.category,
       <<"R","a","t","i","n","g",":"," ">> \o ratingText(p.rating) \o <<"U+2605"," ","(">> \o digitsOf(p.reviews) \o <<" ","r","e","v","i","e","w","s",")">>,
       <<"S","t","o","c","k",":"," ">> \o (IF p.stock > 0 THEN digitsOf(p.stock) \o <<" ","a","v","a","i","l","a","b","l","e">> ELSE <<"O","u","t"," ","o","f"," ","s","t","o","c","k">>) >>
    \o (IF p.badge # <<>> THEN <<<<"B","a","d","g","e",":"," ">> \o p.badge>> ELSE <<>>)
    \o (IF p.description # <<>> THEN <<<<"D","e","s","c","r","i","p","t","i","o","n",":"," ">> \o p.description>> ELSE <<>>)

\* a catalog whose lines are joined like the parts of a line
catalogText_oneLine(catalog) ==
    join([k \in 1..Len(catalog) |-> join(parts(catalog[k]), <<" ","|"," ">>)], <<" ","|"," ">>)

\* products.map(p => parts.join(' | ')).join('\n')
catalogText(catalog) ==
    join([k \in 1..Len(catalog) |-> join(parts(catalog[k]), <<" ","|"," ">>)], <<"\n">>)

\* the products of data.ts the catalog is built from: text fields of one line
CatalogPool ==
    << [name |-> <<"R","a","i","n","b","o","w"," ","S","t","a","c","k","e","r">>, price |-> 1199, originalPrice |-> 1499, category |-> <<"E","d","u","c","a","t","i","o","n","a","l">>,
        rating |-> 48, reviews |-> 120, stock |-> 5, badge |-> <<"S","a","l","e">>, description |-> <<"S","t","a","c","k"," ","|"," ","s","o","r","t"," ","(","7"," ","r","i","n","g","s",")">>],
       [name |-> <<"C","u","d","d","l","y"," ","E","l","e","p","h","a","n","t">>, price |-> 1699, originalPrice |-> 0, category |-> <<"P","l","u","s","h","i","e","s">>,
        rating |-> 47, reviews |-> 85, stock |-> 0, badge |-> <<>>, description |-> <<>>],
       [name |-> <<"M","e","g","a"," ","A","r","t"," ","K","i","t">>, price |-> 2999, originalPrice |-> 0, category |-> <<"A","r","t","s"," ","&"," ","C","r","a","f","t","s">>,
        rating |-> 50, reviews |-> 9, stock |-> 12, badge |-> <<"N","e","w">>, description |-> <<>>],
       [name |-> <<"B","l","o","c","k","s"," ","(","1","0","0"," ","p","c","s",")">>, price |-> 999, originalPrice |-> 1199, category |-> <<"E","d","u","c","a","t","i","o","n","a","l">>,
        rating |-> 45, reviews |-> 1040, stock |-> 1, badge |-> <<>>, description |-> <<"W","a","s"," ","Rs","1","1","9","9",","," ","n","o","w"," ","(","Rs","9","9","9",")">>],
       [name |-> <<"C","u","d","d","l","y"," ","E","l","e","p","h","a","n","t">>, price |-> 1799, originalPrice |-> 0, category |-> <<"P","l","u","s","h","i","e","s">>,
        rating |-> 40, reviews |-> 0, stock |-> 2, badge |-> <<>>, description |-> <<"L","a","r","g","e">>],
       [name |-> <<"S","p","e","e","d"," ","R","a","c","e","r"," ","R","C">>, price |-> 3499, originalPrice |-> 0, category |-> <<"O","u","t","d","o","o","r"," ","F","u","n">>,
        rating |-> 46, reviews |-> 210, stock |-> 7, badge |-> <<>>, description |-> <<>>] >>

\* the catalogs: the products of CatalogPool at up to MaxCatalog - 1 different
\* indices, in any order
CatalogSnapshots ==
    { [k \in 1..Len(ix) |-> CatalogPool[ix[k]]] :
          ix \in { s \in UNION { [1..n -> 1..Len(CatalogPool)] : n \in 0..(MaxCatalog - 1) } :
                       \A a, b \in 1..Len(s) : a # b => s[a] # s[b] } }

InitCatalog ==
    /\ API_KEY = ""
    /\ ai = NULL
    /\ products \in CatalogSnapshots
    /\ kind = "catalog"
    /\ message = <<>>
    /\ language = "en"
    /\ size = DefaultSize
    /\ imageFile = NoFile
    /\ history = <<>>
    /\ settled = FALSE
    /\ fired = <<>>
    /\ elapsed = 0
    /\ console = <<>>
    /\ pc = "idle"
    /\ calls = <<>>
    /\ outcomes = <<>>
    /\ result = Pending
    /\ previous = NoRun
    /\ uiIdle

\* const PRODUCT_CATALOG = buildProductCatalog()
buildProductCatalog ==
    /\ kind = "catalog"
    /\ pc = "idle"
    /\ result' = Resolved("catalog", NoReply, catalogText(products))
    /\ pc' = "done"
    /\ UNCHANGED <<uiVars, previous, API_KEY, ai, products, kind, message, language, size, imageFile, history, settled, fired, elapsed, console, calls, outcomes>>

NextCatalog == buildProductCatalog

SpecCatalog == InitCatalog /\ [][NextCatalog]_vars

\* ------------------------------------------- pages/VoiceAssistant.tsx

\* how many inputs a conversation is followed for
MaxInputs == 3

\* what is typed or recognised
VoiceTexts == { <<>>, <<" ">>, <<"h","i">>, <<" ","r","o","b","o","t"," ">> }

\* what generateVoiceResponse resolves with
VoiceReplies == { <<"H","e","l","l","o","!">>, <<"T","r","y"," ","t","h","e"," ","r","o","b","o","t",".">> }

apology == <<"I","'","m"," ","s","o","r","r","y",","," ","I"," ","h","a","d"," ","t","r","o","u","b","l","e"," ","p","r","o","c","e","s","s","i","n","g"," ","t","h","a","t","."," ","C","o","u","l","d"," ","y","o","u"," ","t","r","y"," ","a","g","a","i","n","?">>

Message(who, text) == [role |-> who, text |-> text]

\* list without its i-th element
without(list, i) == SubSeq(list, 1, i - 1) \o SubSeq(list, i + 1, Len(list))

\* processUserInput that sets isLoading only
processUserInput_noMessage(text) ==
    IF trim(text) = <<>>
    THEN UNCHANGED <<messages, isLoading, voiceCalls>>
    ELSE /\ UNCHANGED messages
         /\ isLoading' = TRUE
         /\ voiceCalls' = Append(voiceCalls, text)

\* processUserInput up to its await
processUserInput(text) ==
    IF trim(text) = <<>>
    THEN UNCHANGED <<messages, isLoading, voiceCalls>>
    ELSE /\ messages' = Append(messages, Message("user", text))
         /\ isLoading' = TRUE
         /\ voiceCalls' = Append(voiceCalls, text)

\* the conversation is followed for MaxInputs inputs
followed == Len(SelectSeq(messages, LAMBDA m : m.role = "user")) < MaxInputs

\* onChange of the text field
setTextInput ==
    /\ \E text \in VoiceTexts : textInput' = text /\ text # textInput
    /\ UNCHANGED <<serviceVars, navVars, authVars, historyVars, orderVars, shopVars, messages, isLoading, voiceCalls>>

handleTextSubmit ==
    /\ followed
    /\ trim(textInput) # <<>> /\ ~isLoading
    /\ processUserInput(trim(textInput))
    /\ textInput' = <<>>
    /\ UNCHANGED <<serviceVars, navVars, authVars, historyVars, orderVars, shopVars>>

\* recognition.onresult with a final transcript
onresult ==
    /\ followed
    /\ \E finalTranscript \in VoiceTexts \ {<<>>} : processUserInput(trim(finalTranscript))
    /\ UNCHANGED <<serviceVars, navVars, authVars, historyVars, orderVars, shopVars, textInput>>

\* processUserInput from its await on, the promise resolved
processUserInputResolved ==
    /\ \E i \in 1..Len(voiceCalls), response \in VoiceReplies :
           /\ messages' = Append(messages, Message("assistant", response))
           /\ voiceCalls' = without(voiceCalls, i)
    /\ isLoading' = FALSE
    /\ UNCHANGED <<serviceVars, navVars, authVars, historyVars, orderVars, shopVars, textInput>>

\* processUserInput from its await on, the promise rejected
processUserInputRejected ==
    /\ \E i \in 1..Len(voiceCalls) :
           /\ messages' = Append(messages, Message("assistant", apology))
           /\ voiceCalls' = without(voiceCalls, i)
    /\ isLoading' = FALSE
    /\ UNCHANGED <<serviceVars, navVars, authVars, historyVars, orderVars, shopVars, textInput>>

InitVoiceAssistant == serviceIdle /\ uiIdle

NextVoiceAssistant ==
    \/ setTextInput
    \/ handleTextSubmit
    \/ onresult
    \/ processUserInputResolved
    \/ processUserInputRejected

SpecVoiceAssistant == InitVoiceAssistant /\ [][NextVoiceAssistant]_vars

\* every call of generateVoiceResponse settles
FairVoiceAssistant ==
    SpecVoiceAssistant /\ WF_vars(processUserInputResolved \/ processUserInputRejected)

\* ------------------------------------------------- Navbar: search dropdown

\* the products of the mock backend
mockProducts == CatalogPool

\* the search filter of MockBackend.getProducts and of the server
searched(list, search) ==
    IF search = <<>> THEN list
    ELSE LET q == toLowerCase(search)
             hit(p) == includes(toLowerCase(p.name), q) \/ includes(toLowerCase(p.category), q)
         IN  SelectSeq(list, hit)

\* how many calls of api.products.list are followed at a time
MaxPending == 2

\* what is typed into the search field
SearchInputs == { <<>>, <<" ">>, <<"e">>, <<"r","o">>, <<"b","e","a","r">> }

\* handleSearchChange up to its await
handleSearchChange ==
    /\ \E query \in SearchInputs :
           /\ query # searchQuery
           /\ searchQuery' = query
           /\ IF Len(trim(query)) > 0
              THEN /\ Len(listCalls) < MaxPending
                   /\ listCalls' = Append(listCalls, query)
                   /\ UNCHANGED suggestions
              ELSE /\ suggestions' = <<>>
                   /\ UNCHANGED listCalls
    /\ UNCHANGED <<serviceVars, voiceVars, authVars, historyVars, orderVars, shopVars, USE_MOCK_BACKEND>>

\* the calls that can settle next: over the mock backend each call waits the
\* same 600 ms, so the oldest; over the network any
settling == IF USE_MOCK_BACKEND THEN {1} \cap (1..Len(listCalls)) ELSE 1..Len(listCalls)

\* handleSearchChange from its await on, the list resolved
handleSearchChangeResolved ==
    /\ \E i \in settling :
           /\ suggestions' = slice0(searched(mockProducts, listCalls[i]), 5)
           /\ listCalls' = without(listCalls, i)
    /\ UNCHANGED <<serviceVars, voiceVars, authVars, historyVars, orderVars, shopVars, USE_MOCK_BACKEND, searchQuery>>

\* handleSearchChange from its await on, the fetch rejected
handleSearchChangeRejected ==
    /\ ~USE_MOCK_BACKEND
    /\ \E i \in settling :
           /\ suggestions' = <<>>
           /\ listCalls' = without(listCalls, i)
    /\ UNCHANGED <<serviceVars, voiceVars, authVars, historyVars, orderVars, shopVars, USE_MOCK_BACKEND, searchQuery>>

\* a mousedown outside the search container
handleClickOutside ==
    /\ searchQuery # <<>> \/ suggestions # <<>>
    /\ searchQuery' = <<>>
    /\ suggestions' = <<>>
    /\ UNCHANGED <<serviceVars, voiceVars, authVars, historyVars, orderVars, shopVars, USE_MOCK_BACKEND, listCalls>>

InitNavbar ==
    /\ serviceIdle
    /\ voiceIdle
    /\ authIdle
    /\ historyIdle
    /\ orderIdle
    /\ shopIdle
    /\ USE_MOCK_BACKEND \in BOOLEAN
    /\ searchQuery = <<>>
    /\ suggestions = <<>>
    /\ listCalls = <<>>

NextNavbar ==
    \/ handleSearchChange
    \/ handleSearchChangeResolved
    \/ handleSearchChangeRejected
    \/ handleClickOutside

SpecNavbar == InitNavbar /\ [][NextNavbar]_vars

\* --------------------------------------------- contexts/AuthContext.tsx

\* mockUsers['sarah.jenkins@example.com'] and mockUsers['admin@example.com']
\* with the role MockBackend.login gives them, and a Google account as
\* buildAuthUserFromFirebase makes it
SarahJenkins == [id |-> "u1", email |-> "sarah.jenkins@example.com", role |-> "user"]

Admin == [id |-> "admin", email |-> "admin@example.com", role |-> "admin"]

GoogleUser == [id |-> "g-uid", email |-> "kid@gmail.com", role |-> "user"]

Credentials(email, password) == [email |-> email, password |-> password]

\* the credentials typed into the login form
LoginInputs ==
    { Credentials("user@example.com", "password"),
      Credentials("admin@example.com", "adminpass"),
      Credentials("user@example.com", "adminpass") }

\* what MockBackend.login resolves with: { user, token }, or null as
\* [user |-> NoUser]; the token is kept without its Date.now() suffix
authResultOf(c) ==
    IF c.email = "user@example.com" /\ c.password = "password"
    THEN [user |-> SarahJenkins, token |-> "mock-jwt-u1"]
    ELSE IF c.email = "admin@example.com" /\ c.password = "adminpass"
    THEN [user |-> Admin, token |-> "mock-jwt-admin"]
    ELSE [user |-> NoUser, token |-> ""]

\* the useEffect of AuthProvider on a page load: the React state starts
\* afresh, the calls awaited by the page before are gone, the session store
\* stays; without Firebase the stored user is read at once, with Firebase
\* the first auth-change callback is to come
mount ==
    /\ loginCalls' = <<>>
    /\ googleCalls' = 0
    /\ IF firebaseEnabled
       THEN /\ authChanges' = 1
            /\ isAuthenticated' = FALSE
            /\ user' = NoUser
            /\ role' = ""
            /\ loading' = TRUE
       ELSE /\ authChanges' = 0
            /\ isAuthenticated' = (sessionStorage.currentUser # NoUser)
            /\ user' = sessionStorage.currentUser
            /\ role' = sessionStorage.currentUser.role
            /\ loading' = FALSE
    /\ UNCHANGED <<serviceVars, voiceVars, navVars, historyVars, orderVars, shopVars, firebaseEnabled, firebaseUser, sessionStorage, loggedOut>>

\* the callback given to onFirebaseAuthChanged, called with the user Firebase
\* holds when the notification is delivered
onFirebaseAuthChanged ==
    /\ authChanges > 0
    /\ authChanges' = authChanges - 1
    /\ LET changed == firebaseUser
           stored == sessionStorage.currentUser
       IN  IF changed # NoUser
           THEN /\ isAuthenticated' = TRUE
                /\ user' = changed
                /\ role' = changed.role
                /\ sessionStorage' = [currentUser |-> changed, authToken |-> "firebase-" \o changed.id]
           ELSE IF stored # NoUser
           THEN /\ isAuthenticated' = TRUE
                /\ user' = stored
                /\ role' = stored.role
                /\ UNCHANGED sessionStorage
           ELSE /\ isAuthenticated' = FALSE
                /\ user' = NoUser
                /\ role' = ""
                /\ UNCHANGED sessionStorage
    /\ loading' = FALSE
    /\ UNCHANGED <<serviceVars, voiceVars, navVars, historyVars, orderVars, shopVars, firebaseEnabled, firebaseUser, loginCalls, googleCalls, loggedOut>>

\* login up to its await
login ==
    /\ Len(loginCalls) < MaxPending
    /\ \E c \in LoginInputs : loginCalls' = Append(loginCalls, c)
    /\ loading' = TRUE
    /\ loggedOut' = FALSE
    /\ UNCHANGED <<serviceVars, voiceVars, navVars, historyVars, orderVars, shopVars, firebaseEnabled, firebaseUser, authChanges, isAuthenticated, user, role, sessionStorage, googleCalls>>

\* a login that sets the state and leaves the session store alone
loginResolved_notStored ==
    /\ \E i \in 1..Len(loginCalls) :
           /\ loginCalls' = without(loginCalls, i)
           /\ LET authResult == authResultOf(loginCalls[i])
              IN  IF authResult.user # NoUser
                  THEN /\ isAuthenticated' = TRUE
                       /\ user' = authResult.user
                       /\ role' = authResult.user.role
                       /\ UNCHANGED sessionStorage
                  ELSE UNCHANGED <<isAuthenticated, user, role, sessionStorage>>
    /\ loading' = FALSE
    /\ UNCHANGED <<serviceVars, voiceVars, navVars, historyVars, orderVars, shopVars, firebaseEnabled, firebaseUser, authChanges, googleCalls, loggedOut>>

\* login from its await on, api.user.login resolved
loginResolved ==
    /\ \E i \in 1..Len(loginCalls) :
           /\ loginCalls' = without(loginCalls, i)
           /\ LET authResult == authResultOf(loginCalls[i])
              IN  IF authResult.user # NoUser
                  THEN /\ isAuthenticated' = TRUE
                       /\ user' = authResult.user
                       /\ role' = authResult.user.role
                       /\ sessionStorage' = [currentUser |-> authResult.user, authToken |-> authResult.token]
                  ELSE UNCHANGED <<isAuthenticated, user, role, sessionStorage>>
    /\ loading' = FALSE
    /\ UNCHANGED <<serviceVars, voiceVars, navVars, historyVars, orderVars, shopVars, firebaseEnabled, firebaseUser, authChanges, googleCalls, loggedOut>>

\* login from its await on, api.user.login rejected (over the network)
loginRejected ==
    /\ ~USE_MOCK_BACKEND
    /\ \E i \in 1..Len(loginCalls) : loginCalls' = without(loginCalls, i)
    /\ loading' = FALSE
    /\ UNCHANGED <<serviceVars, voiceVars, navVars, historyVars, orderVars, shopVars, firebaseEnabled, firebaseUser, authChanges, isAuthenticated, user, role, sessionStorage, googleCalls, loggedOut>>

\* loginWithGoogle up to its await
loginWithGoogle ==
    /\ firebaseEnabled
    /\ googleCalls < MaxPending
    /\ googleCalls' = googleCalls + 1
    /\ loading' = TRUE
    /\ loggedOut' = FALSE
    /\ UNCHANGED <<serviceVars, voiceVars, navVars, historyVars, orderVars, shopVars, firebaseEnabled, firebaseUser, authChanges, isAuthenticated, user, role, sessionStorage, loginCalls>>

\* loginWithGoogle from its await on: signed in, and Firebase has an auth
\* change to deliver, or the popup was closed or failed
loginWithGoogleSettled ==
    /\ googleCalls > 0
    /\ googleCalls' = googleCalls - 1
    /\ \/ /\ authChanges < MaxPending
          /\ firebaseUser' = GoogleUser
          /\ authChanges' = authChanges + 1
       \/ UNCHANGED <<firebaseUser, authChanges>>
    /\ loading' = FALSE
    /\ UNCHANGED <<serviceVars, voiceVars, navVars, historyVars, orderVars, shopVars, firebaseEnabled, isAuthenticated, user, role, sessionStorage, loginCalls, loggedOut>>

\* logout; firebaseSignOut signs the Firebase user out, which is an auth
\* change to deliver, or fails
logout ==
    /\ isAuthenticated' = FALSE
    /\ user' = NoUser
    /\ role' = ""
    /\ sessionStorage' = EmptyStore
    /\ loggedOut' = TRUE
    /\ IF firebaseEnabled /\ firebaseUser # NoUser
       THEN \/ /\ authChanges < MaxPending
               /\ firebaseUser' = NoUser
               /\ authChanges' = authChanges + 1
            \/ UNCHANGED <<firebaseUser, authChanges>>
       ELSE UNCHANGED <<firebaseUser, authChanges>>
    /\ UNCHANGED <<serviceVars, voiceVars, navVars, historyVars, orderVars, shopVars, firebaseEnabled, loading, loginCalls, googleCalls>>

\* the first page load, over an empty session store
InitAuth ==
    /\ serviceIdle
    /\ voiceIdle
    /\ historyIdle
    /\ orderIdle
    /\ shopIdle
    /\ USE_MOCK_BACKEND \in BOOLEAN
    /\ searchQuery = <<>>
    /\ suggestions = <<>>
    /\ listCalls = <<>>
    /\ firebaseEnabled \in BOOLEAN
    /\ firebaseUser \in (IF firebaseEnabled THEN {NoUser, GoogleUser} ELSE {NoUser})
    /\ authChanges = (IF firebaseEnabled THEN 1 ELSE 0)
    /\ isAuthenticated = FALSE
    /\ user = NoUser
    /\ role = ""
    /\ loading = firebaseEnabled
    /\ sessionStorage = EmptyStore
    /\ loginCalls = <<>>
    /\ googleCalls = 0
    /\ loggedOut = FALSE

NextAuth ==
    \/ mount
    \/ onFirebaseAuthChanged
    \/ login
    \/ loginResolved
    \/ loginRejected
    \/ loginWithGoogle
    \/ loginWithGoogleSettled
    \/ logout

SpecAuth == InitAuth /\ [][NextAuth]_vars

\* ------------------------------------------ services/api.ts: saveToHistory

\* .slice(0, 10)
historyLimit == 10

MaxNames == 12

MaxSaves == 2

\* the k-th product name
NameAt(k) == "Toy " \o ToString(k)

ProductNames == {NameAt(k) : k \in 1..MaxNames}

\* list.slice(0, end)
sliceFirst(list, end) == SubSeq(list, 1, IF Len(list) < end THEN Len(list) ELSE end)

\* a saveToHistory that keeps one entry more
newHistory_eleven(list, name) == sliceFirst(<<name>> \o list, historyLimit + 1)

\* [productName, ...history].slice(0, 10)
newHistory(list, name) == sliceFirst(<<name>> \o list, historyLimit)

\* the lists earlier visits have left in localStorage: n names viewed one
\* after the other, the latest of them NameAt(i)
Stored ==
    { [k \in 1..n |-> NameAt(((i + k - 2) % MaxNames) + 1)] :
        i \in 1..MaxNames, n \in 0..historyLimit }

\* saveToHistory(productName); JSON.stringify and JSON.parse give a list of
\* strings back as it was
saveToHistory ==
    /\ saves < MaxSaves
    /\ saves' = saves + 1
    /\ \E name \in ProductNames :
           /\ productName' = name
           /\ viewedItems' =
                  IF ~(\E k \in 1..Len(viewedItems) : viewedItems[k] = name)
                  THEN newHistory(viewedItems, name)
                  ELSE viewedItems
    /\ UNCHANGED <<serviceVars, voiceVars, navVars, authVars, orderVars, shopVars>>

InitHistory ==
    /\ serviceIdle
    /\ voiceIdle
    /\ navIdle
    /\ authIdle
    /\ orderIdle
    /\ shopIdle
    /\ viewedItems \in Stored
    /\ productName = ""
    /\ saves = 0

NextHistory == saveToHistory

SpecHistory == InitHistory /\ [][NextHistory]_vars

\* ------------------------------------- orders: services/api.ts and server

MaxOrders == 2

MaxDay == 3

Customers == {"sarah.jenkins@example.com", "alex.chen@example.com", "kid@gmail.com"}

\* 'ORD-' + (Math.floor(Math.random() * 9000) + 1000): any of 1000..9999
OrderIds == {1000, 1001}

\* list.filter(order => order.customerEmail === email)
ofCustomer(list, email) == SelectSeq(list, LAMBDA order : order.customerEmail = email)

\* where the element at k goes when the list is sorted by date, latest first;
\* Array.prototype.sort is stable
rankByDate(list, k) ==
    Cardinality({j \in 1..Len(list) :
                    \/ list[j].date > list[k].date
                    \/ list[j].date = list[k].date /\ j <= k})

\* list.sort((a, b) => new Date(b.date).getTime() - new Date(a.date).getTime())
sortByDate(list) ==
    [r \in 1..Len(list) |-> list[CHOOSE k \in 1..Len(list) : rankByDate(list, k) = r]]

\* Order.find().sort({ createdAt: -1 }): the collection, latest first
findAll == [k \in 1..Len(collection) |-> collection[Len(collection) + 1 - k]]

\* how many orders were made
made == Len(collection) + Len(mockOrders) - Len(seedOrders)

\* MockBackend.getOrders, and the route past its database branch
mockGetOrders(email) == sortByDate(ofCustomer(mockOrders, email))

\* api.user.getOrders(email): MockBackend.getOrders, or GET /api/user/orders
\* answered from the collection when it is connected and holds an order, and
\* from mockOrders otherwise; a lookup that fails is a database not connected
getOrders ==
    /\ \E email \in Customers :
           \/ /\ ~USE_MOCK_BACKEND /\ dbConnected /\ collection # <<>>
              /\ fetched' = [email |-> email, orders |-> findAll]
           \/ /\ USE_MOCK_BACKEND \/ ~dbConnected \/ collection = <<>>
              /\ fetched' = [email |-> email, orders |-> mockGetOrders(email)]
    /\ UNCHANGED <<serviceVars, voiceVars, navVars, authVars, historyVars, shopVars, dbConnected, collection, mockOrders, today>>

\* api.user.createOrder(items, total, email): MockBackend.createOrder, or
\* POST /api/user/orders, which creates a document when the database is
\* connected, and puts the order before mockOrders otherwise
createOrder ==
    /\ made < MaxOrders
    /\ \E email \in Customers, n \in OrderIds :
           \/ /\ ~USE_MOCK_BACKEND /\ dbConnected
              /\ collection' = Append(collection, OrderOf(n, "", email, today, Len(seedOrders) + made + 1))
              /\ UNCHANGED mockOrders
           \/ /\ USE_MOCK_BACKEND \/ ~dbConnected
              /\ mockOrders' = <<OrderOf(n, email, "", today, Len(seedOrders) + made + 1)>> \o mockOrders
              /\ UNCHANGED collection
    /\ UNCHANGED <<serviceVars, voiceVars, navVars, authVars, historyVars, shopVars, dbConnected, fetched, today>>

\* mongoose.connection.on('disconnected') and on('reconnected')
connectionChanged ==
    /\ ~USE_MOCK_BACKEND
    /\ dbConnected' = ~dbConnected
    /\ UNCHANGED <<serviceVars, voiceVars, navVars, authVars, historyVars, shopVars, collection, mockOrders, fetched, today>>

\* a day goes by
midnight ==
    /\ today < MaxDay
    /\ today' = today + 1
    /\ UNCHANGED <<serviceVars, voiceVars, navVars, authVars, historyVars, shopVars, dbConnected, collection, mockOrders, fetched>>

InitOrders ==
    /\ serviceIdle
    /\ voiceIdle
    /\ authIdle
    /\ historyIdle
    /\ shopIdle
    /\ USE_MOCK_BACKEND \in BOOLEAN
    /\ searchQuery = <<>>
    /\ suggestions = <<>>
    /\ listCalls = <<>>
    /\ dbConnected \in (IF USE_MOCK_BACKEND THEN {FALSE} ELSE BOOLEAN)
    /\ collection = <<>>
    /\ mockOrders = seedOrders
    /\ fetched = NoFetch
    /\ today = 2

NextOrders ==
    \/ getOrders
    \/ createOrder
    \/ connectionChanged
    \/ midnight

SpecOrders == InitOrders /\ [][NextOrders]_vars

\* ------------------------------------------- Shop: the price-range filter

\* Infinity, above every price
Infinity == 2147483647

\* limit = 50 of the products route
pageLimit == 50

\* PRICE_RANGES
PRICE_RANGES ==
    << [label |-> "Under Rs2000", min |-> 0, max |-> 2000],
       [label |-> "Rs2000 to Rs4000", min |-> 2000, max |-> 4000],
       [label |-> "Rs4000 to Rs8000", min |-> 4000, max |-> 8000],
       [label |-> "Over Rs8000", min |-> 8000, max |-> Infinity] >>

\* products of data, by the names and prices the local responder quotes
shopProducts ==
    << RainbowStacker, CuddlyElephant, CastleBuilderSet, MegaArtKit,
       SurpriseGiftBox, SuperGalacticRobot, SpeedRacerRC, MedievalCastle >>

\* priceFilter.map(label => PRICE_RANGES.find(r => r.label === label)).filter(Boolean)
priceRangesOf(labels) ==
    [k \in 1..Len(labels) |->
        PRICE_RANGES[CHOOSE i \in 1..Len(PRICE_RANGES) : PRICE_RANGES[i].label = labels[k]]]

\* String(n)
String(n) == IF n = Infinity THEN <<"I","n","f","i","n","i","t","y">> ELSE digitsOf(n)

\* Number(text)
Number(text) == IF text = <<"I","n","f","i","n","i","t","y">> THEN Infinity ELSE parseInt(text)

\* MockBackend.getProducts({ priceRange }), with no search, category or sort
getProducts(priceRange) ==
    IF priceRange # <<>>
    THEN SelectSeq(shopProducts, LAMBDA p :
             \E k \in 1..Len(priceRange) : p.price >= priceRange[k].min /\ p.price < priceRange[k].max)
    ELSE shopProducts

\* the query api.products.list builds: minPrice and maxPrice, absent as <<>>
queryOf(priceRange) ==
    IF priceRange # <<>>
    THEN LET least == CHOOSE a \in {priceRange[k].min : k \in 1..Len(priceRange)} :
                          \A k \in 1..Len(priceRange) : a <= priceRange[k].min
             most == CHOOSE b \in {priceRange[k].max : k \in 1..Len(priceRange)} :
                          \A k \in 1..Len(priceRange) : b >= priceRange[k].max
         IN  [minPrice |-> String(least), maxPrice |-> String(most)]
    ELSE [minPrice |-> <<>>, maxPrice |-> <<>>]

\* GET /api/products on mock data, page 1: a parameter that is a non-empty
\* string filters, "0" too
productsRoute(query) ==
    LET fromMin == IF query.minPrice # <<>>
                   THEN SelectSeq(shopProducts, LAMBDA p : p.price >= Number(query.minPrice))
                   ELSE shopProducts
        toMax == IF query.maxPrice # <<>>
                 THEN SelectSeq(fromMin, LAMBDA p : p.price <= Number(query.maxPrice))
                 ELSE fromMin
    IN  sliceFirst(toMax, pageLimit)

\* api.products.list({ priceRange })
list(priceRange) ==
    IF USE_MOCK_BACKEND THEN getProducts(priceRange) ELSE productsRoute(queryOf(priceRange))

\* the onClick of a price-range button
setPriceFilter ==
    /\ \E i \in 1..Len(PRICE_RANGES) :
           LET label == PRICE_RANGES[i].label
           IN  priceFilter' =
                   IF \E k \in 1..Len(priceFilter) : priceFilter[k] = label
                   THEN SelectSeq(priceFilter, LAMBDA p : p # label)
                   ELSE Append(priceFilter, label)
    /\ UNCHANGED <<serviceVars, voiceVars, navVars, authVars, historyVars, orderVars, shown>>

\* fetchProducts, its call of api.products.list answered
fetchProducts ==
    /\ LET priceRanges == priceRangesOf(priceFilter)
       IN  shown' = [ranges |-> priceRanges, products |-> list(priceRanges)]
    /\ UNCHANGED <<serviceVars, voiceVars, navVars, authVars, historyVars, orderVars, priceFilter>>

InitShop ==
    /\ serviceIdle
    /\ voiceIdle
    /\ authIdle
    /\ historyIdle
    /\ orderIdle
    /\ shopIdle
    /\ USE_MOCK_BACKEND \in BOOLEAN
    /\ searchQuery = <<>>
    /\ suggestions = <<>>
    /\ listCalls = <<>>

NextShop ==
    \/ setPriceFilter
    \/ fetchProducts

SpecShop == InitShop /\ [][NextShop]_vars

\* ---------------------------------------------- the local responder: claims

Done == pc = "done"

lowered == toLowerCase(message)

reply == result.reply

\* the products of the catalog, by position, that a list of a reply names
Listed(items) ==
    {i \in 1..Len(products) : \E k \in 1..Len(items) : items[k] = named(products[i])}

\* items names the best (up to) three of the catalog positions in S, best first,
\* where key[i] ranks position i
IsTopThree(items, S, key) ==
    /\ Len(items) = (IF Cardinality(S) < 3 THEN Cardinality(S) ELSE 3)
    /\ Listed(items) \subseteq S
    /\ Cardinality(Listed(items)) = Len(items)
    /\ \A k \in 1..Len(items) : \E i \in S : items[k] = named(products[i])
    /\ \A k \in 1..(Len(items) - 1) : \E i, j \in S :
           /\ items[k] = named(products[i])
           /\ items[k + 1] = named(products[j])
           /\ key[i] >= key[j]
    /\ \A i \in S \ Listed(items) : \A j \in Listed(items) : key[i] <= key[j]

\* every listed product stands in the text with its name and its price
TextNamesAll(r) ==
    \A k \in 1..Len(r.items) : \E t \in 1..(Len(r.text) - 2) :
        r.text[t] = r.items[k].name /\ r.text[t + 2] = ToString(r.items[k].price)

ratingKey == [i \in 1..Len(products) |-> products[i].rating]

ratingTimesReviewsKey == [i \in 1..Len(products) |-> products[i].rating * products[i].reviews]

InStockAll == {i \in 1..Len(products) : products[i].stock > 0}

InStockOf(category) == {i \in InStockAll : products[i].category = category}

\* What each message of the input set matches, by the patterns of the code:
\* the captured ceiling, the keyword count of each category of the table, and
\* the conversational patterns.
Facts ==
    [m \in Messages |->
        LET input == toLowerCase(m)
        IN  [digits   |-> priceMatch(input),
             counts   |-> [n \in 1..Len(categoryKeywords) |->
                              Cardinality({k \in 1..Len(categoryKeywords[n].keywords) :
                                  includes(input, categoryKeywords[n].keywords[k])})],
             age      |-> \/ MatchesBounded(input, ToddlerAlts)
                          \/ MatchesBoundedThenBounded(input, PreschoolAlts, YearAlts)
                          \/ MatchesBoundedThenBounded(input, YearAlts, PreschoolDigitAlts)
                          \/ MatchesBounded(input, OlderAlts),
             greeting |-> \/ MatchesBounded(input, GreetingAlts)
                          \/ \E w \in GreetingBengali : includes(input, w),
             thanks   |-> \/ MatchesBounded(input, ThanksAlts)
                          \/ \E w \in ThanksBengali : includes(input, w),
             best     |-> MatchesBounded(input, BestAlts),
             shipping |-> MatchesBounded(input, ShippingAlts)]]

KeywordCounts == Facts[message].counts

\* the highest of the counts
TopOf(counts) ==
    CHOOSE c \in {counts[n] : n \in DOMAIN counts} : \A n \in DOMAIN counts : counts[n] <= c

\* the first category of the table among those with the highest count
ChosenOf(counts) ==
    LET top == TopOf(counts)
        n == CHOOSE x \in DOMAIN counts :
                 counts[x] = top /\ \A y \in 1..(x - 1) : counts[y] < top
    IN  categoryKeywords[n].cat

CondPrice == Facts[message].digits # <<>>

\* the ceiling N of a message that has one
Ceiling == parseInt(Facts[message].digits)

CondCategory == TopOf(KeywordCounts) > 0

CondCategoryInStock ==
    LET counts == KeywordCounts
    IN  TopOf(counts) > 0 /\ InStockOf(ChosenOf(counts)) # {}

CondAge == Facts[message].age

CondGreeting == Facts[message].greeting

CondThanks == Facts[message].thanks

CondBest == Facts[message].best

CondShipping == Facts[message].shipping

\* the first branch, in the stated order, whose condition holds
FirstBranch(categoryCondition) ==
    IF CondPrice THEN "price"
    ELSE IF categoryCondition THEN "category"
    ELSE IF CondAge THEN "age"
    ELSE IF CondGreeting THEN "greeting"
    ELSE IF CondThanks THEN "thanks"
    ELSE IF CondBest THEN "best"
    ELSE IF CondShipping THEN "shipping"
    ELSE "default"

\* the branch of the stated order a reply comes from
BranchOf(r) ==
    CASE r.branch \in {"price", "priceNone"} -> "price"
      [] r.branch \in {"ageToddler", "agePreschool", "ageOlder"} -> "age"
      [] OTHER -> r.branch

PlushTeddyUnder2000 == <<"p","l","u","s","h"," ","t","e","d","d","y"," ","u","n","d","e","r"," ","Rs","2","0","0","0">>

\* C6 as stated: the reply comes from the first branch, in the order price,
\* category, age, greeting, thanks, best/popular, shipping, default, whose
\* condition matches the message.
C6_FirstBranchMatchingTheMessage ==
    (Done /\ kind = "local") => BranchOf(reply) = FirstBranch(CondCategory)

\* C6, amended: the reply comes from the first branch of that order whose
\* condition holds, where the category branch also needs an in-stock product
\* of the chosen category in the catalog; without one the later branches are
\* tried.  "plush teddy under Rs2000" is answered by the price branch.
C6_FirstBranchWithStockedCategory ==
    (Done /\ kind = "local") =>
        /\ BranchOf(reply) = FirstBranch(CondCategoryInStock)
        /\ message = PlushTeddyUnder2000 => BranchOf(reply) = "price"

C6_Witness ==
    /\ Done /\ kind = "local"
    /\ message = PlushTeddyUnder2000
    /\ CondPrice /\ CondCategoryInStock
    /\ reply.branch = "price"

\* C7: whatever the message, the language and the catalog, the text of the
\* reply is not the empty string.
C7_ReplyIsNonEmpty ==
    (Done /\ kind = "local") => \E k \in 1..Len(reply.text) : reply.text[k] # ""

C7_Witness ==
    /\ Done /\ kind = "local"
    /\ Len(products) > 0 /\ InStockAll = {}
    /\ reply.branch = "default" /\ reply.items = <<>>

ScenarioACatalog == <<Pool[1], Pool[2]>>

Budget1500 == <<"b","u","d","g","e","t"," ","1","5","0","0">>

\* C8: a message with price ceiling N is answered with the (up to) three
\* in-stock products of price <= N that have the highest rating, in descending
\* order of rating, each with its name and price; "budget 1500" over Rainbow
\* Stacker at 1199 and Cuddly Elephant at 1699 recommends Rainbow Stacker only.
C8_PriceListIsTopThreeByRating ==
    (Done /\ kind = "local" /\ CondPrice) =>
        LET N == Ceiling
            S == {i \in InStockAll : products[i].price <= N}
        IN  /\ S # {} =>
                /\ reply.branch = "price"
                /\ reply.arg = ToString(N)
                /\ IsTopThree(reply.items, S, ratingKey)
                /\ TextNamesAll(reply)
            /\ (message = Budget1500 /\ products = ScenarioACatalog) =>
                   reply.items = <<RainbowStacker>>

\* four affordable products in stock, so that one is left out
C8_Witness ==
    /\ Done /\ kind = "local" /\ CondPrice
    /\ Cardinality({i \in InStockAll : products[i].price <= Ceiling}) = 4
    /\ Len(reply.items) = 3

\* C9: when no in-stock product is within the ceiling, the reply suggests the
\* cheapest in-stock product of the catalog, in both languages.
C9_ConsolationIsCheapestInStock ==
    (Done /\ kind = "local" /\ reply.branch = "priceNone" /\ InStockAll # {}) =>
        \E i \in InStockAll :
            /\ \A j \in InStockAll : products[i].price <= products[j].price
            /\ reply.items = <<named(products[i])>>

\* C10 as stated: every message without a price ceiling that contains a
\* category keyword is answered with the (up to) three in-stock products of the
\* chosen category by descending rating * reviews.
C10_CategoryReplyForEveryCategoryQuery ==
    (Done /\ kind = "local" /\ ~CondPrice /\ CondCategory) =>
        LET chosen == ChosenOf(KeywordCounts)
        IN  /\ matchedCategoryOf(lowered) = chosen
            /\ reply.branch = "category"
            /\ reply.arg = chosen
            /\ IsTopThree(reply.items, InStockOf(chosen), ratingTimesReviewsKey)

\* C10, amended: for a message without a price ceiling that contains a category
\* keyword, the category is the one with the highest keyword count, the first
\* of the table on a tie; when the catalog holds an in-stock product of it the
\* reply lists its (up to) three in-stock products by descending
\* rating * reviews, and when it holds none the reply is that of the later
\* branches.
C10_CategoryIsFirstOfHighestCount ==
    (Done /\ kind = "local" /\ ~CondPrice /\ CondCategory) =>
        LET chosen == ChosenOf(KeywordCounts)
        IN  /\ matchedCategoryOf(lowered) = chosen
            /\ InStockOf(chosen) # {} =>
                   /\ reply.branch = "category"
                   /\ reply.arg = chosen
                   /\ IsTopThree(reply.items, InStockOf(chosen), ratingTimesReviewsKey)
                   /\ TextNamesAll(reply)
            /\ InStockOf(chosen) = {} => reply.branch \notin {"price", "priceNone", "category"}

\* a tie of Educational with Plushies goes to Educational, the earlier one
C10_Witness ==
    /\ Done /\ kind = "local" /\ ~CondPrice
    /\ KeywordCounts[1] = 1 /\ KeywordCounts[2] = 1 /\ TopOf(KeywordCounts) = 1
    /\ reply.branch = "category" /\ reply.arg = "Educational"

\* four plushies in stock, so that one is left out
C10_WitnessTopThree ==
    /\ Done /\ kind = "local"
    /\ reply.branch = "category" /\ reply.arg = "Plushies"
    /\ Cardinality(InStockOf("Plushies")) = 4
    /\ Len(reply.items) = 3

\* ------------------------------------------------- chat and voice: claims

ChatKinds == {"chat", "voice"}

\* a provider credential is configured: the key is set and is not the placeholder
KeyConfigured == API_KEY # "" /\ API_KEY # PlaceholderKey

Hi == <<"h","i">>

\* C3: without a credential (no key, or the placeholder key) the chat and the
\* voice entry point never call the provider and resolve with exactly the
\* local responder's reply for the message and language; "hi" gets the
\* greeting template.
C3_NoCredentialAnswersLocally ==
    (kind \in ChatKinds /\ ~KeyConfigured) =>
        /\ calls = <<>>
        /\ Done =>
               /\ result = Resolved("local", localChatFallback(message, language), <<>>)
               /\ message = Hi =>
                      /\ result.reply.branch = "greeting"
                      /\ result.reply.lang = language

C3_Witness ==
    /\ Done /\ kind = "voice" /\ API_KEY = PlaceholderKey /\ language = "bn"
    /\ message = Hi
    /\ result.reply.branch = "greeting"
    /\ calls = <<>>

\* v is t without its leading and trailing white space, and is not empty
IsTrimOf(v, t) ==
    \E i, j \in 1..Len(t) :
        /\ i <= j
        /\ v = SubSeq(t, i, j)
        /\ t[i] \notin WhiteSpace /\ t[j] \notin WhiteSpace
        /\ \A k \in 1..(i - 1) : t[k] \in WhiteSpace
        /\ \A k \in (j + 1)..Len(t) : t[k] \in WhiteSpace

\* the provider was not reached, threw, or gave no text or only white space
NoUsableText ==
    \/ outcomes = <<>>
    \/ outcomes[1].kind # "text"
    \/ \A k \in 1..Len(outcomes[1].data) : outcomes[1].data[k] \in WhiteSpace

\* C5: with a credential the chat and the voice entry point always resolve: with
\* the local responder's reply for the same message and language when the
\* provider throws or returns no text, an empty text or white space only, and
\* with the trimmed text of the provider otherwise.
C5_CredentialedChatNeverRejects ==
    (Done /\ kind \in ChatKinds /\ KeyConfigured) =>
        /\ result.status = "resolved"
        /\ Len(calls) <= 1
        /\ IF NoUsableText
           THEN result = Resolved("local", localChatFallback(message, language), <<>>)
           ELSE /\ result.source = "remote"
                /\ result.reply = NoReply
                /\ IsTrimOf(result.value, outcomes[1].data)

\* a text with white space around it comes back trimmed
C5_Witness ==
    /\ Done /\ kind = "chat" /\ KeyConfigured
    /\ Len(outcomes) = 1 /\ outcomes[1].kind = "text"
    /\ result.source = "remote"
    /\ Len(result.value) > 0 /\ Len(result.value) < Len(outcomes[1].data)

\* white space only falls back to the local responder
C5_WitnessBlank ==
    /\ Done /\ kind = "voice" /\ KeyConfigured
    /\ Len(outcomes) = 1 /\ outcomes[1] = Outcome("text", <<"\n", " ">>)
    /\ result.source = "local"

\* ------------------------------------------- image generation, editing: claims

Keyless == "pollinations"

\* the strategies of a generation and of an edit, in the order of the chain
GenerateOrder ==
    <<"imagen-3.0-generate-002", "gemini-2.0-flash-preview-image-generation",
      "gemini-2.0-flash-exp", Keyless>>

EditOrder ==
    <<"imagen-3.0-capability-001", "gemini-2.0-flash-preview-image-generation",
      "gemini-2.0-flash-exp", Keyless>>

\* the i-th strategy invoked has finished and yielded an image: the keyless
\* service loaded its url, an Imagen response has bytes in its first image, a
\* Gemini response has a part with inline data
Yielded(i) ==
    /\ i <= Len(outcomes)
    /\ LET o == outcomes[i]
       IN  IF calls[i].strategy = Keyless THEN o.kind = "load"
           ELSE /\ o.kind = "response"
                /\ IF calls[i].strategy \in {"imagen-3.0-generate-002", "imagen-3.0-capability-001"}
                   THEN Len(o.data) > 0 /\ o.data[1] # ""
                   ELSE \E k \in 1..Len(o.data) : o.data[k].data # ""

\* the i-th strategy invoked has finished without an image
Failed(i) == i <= Len(outcomes) /\ ~Yielded(i)

\* the payload of the image the i-th strategy yielded
PayloadOf(i) ==
    LET o == outcomes[i]
    IN  IF calls[i].strategy = Keyless THEN calls[i].request
        ELSE IF calls[i].strategy \in {"imagen-3.0-generate-002", "imagen-3.0-capability-001"}
        THEN <<o.data[1]>>
        ELSE LET k == CHOOSE n \in 1..Len(o.data) :
                          o.data[n].data # "" /\ \A m \in 1..(n - 1) : o.data[m].data = ""
             IN  <<o.data[k].data>>

\* C1: a generation with a client for the credential invokes the strategies in
\* the order Imagen, Gemini variant 1, Gemini variant 2, keyless service, each
\* at most once and only after all earlier ones finished without an image; it
\* resolves with the image of the first strategy that yields one and invokes
\* nothing after it.
C1_GenerateChainInOrder ==
    (kind = "generate" /\ ai # NULL) =>
        /\ Len(calls) <= Len(GenerateOrder)
        /\ \A i \in 1..Len(calls) : calls[i].strategy = GenerateOrder[i]
        /\ Len(outcomes) \in {Len(calls) - 1, Len(calls)}
        /\ \A i \in 1..(Len(calls) - 1) : Failed(i)
        /\ pc # "idle" => Len(calls) >= 1
        /\ Done =>
               /\ Len(outcomes) = Len(calls)
               /\ IF Yielded(Len(calls))
                  THEN /\ result.status = "resolved"
                       /\ result.source = GenerateOrder[Len(calls)]
                       /\ LET payload == PayloadOf(Len(calls))
                          IN  SubSeq(result.value, Len(result.value) - Len(payload) + 1,
                                     Len(result.value)) = payload
                  ELSE Len(calls) = Len(GenerateOrder) /\ result.status = "rejected"

\* Scenario C: Imagen and both Gemini variants fail and the keyless url wins
C1_Witness ==
    /\ Done /\ kind = "generate" /\ ai # NULL
    /\ Len(calls) = 4
    /\ outcomes[1].kind = "throw"
    /\ outcomes[3].kind = "response" /\ outcomes[3].data = <<TextPart>>
    /\ result.status = "resolved" /\ result.source = Keyless
    /\ result.value[1] = "https://image.pollinations.ai/prompt/"

\* the second Gemini variant wins and the keyless service is never invoked
C1_WitnessSecondVariant ==
    /\ Done /\ kind = "generate"
    /\ Len(calls) = 3
    /\ result.source = "gemini-2.0-flash-exp"
    /\ result.value = <<"data:", "image/png", ";base64,", "iVBORw0KGgo=">>

TerminalErrorOf(k) == IF k = "generate" THEN generateError ELSE editError

C2_WitnessRecovered ==
    /\ Done /\ kind = "edit"
    /\ Len(calls) = 2
    /\ outcomes[1].kind = "throw"
    /\ result.status = "resolved" /\ result.source = "gemini-2.0-flash-preview-image-generation"

C4_WitnessRejected ==
    /\ Done /\ kind = "generate" /\ API_KEY = ""
    /\ Len(calls) = 1 /\ calls[1].strategy = Keyless
    /\ outcomes = <<Outcome("error", <<>>)>>
    /\ result = Rejected(generateError)

\* the message is empty or white space only
BlankMessage == \A k \in 1..Len(message) : message[k] \in WhiteSpace

\* C13 as stated: an empty or white-space-only chat message is rejected with a
\* validation error before the provider or the local responder is tried.
C13_BlankMessageIsRejected ==
    (kind \in ChatKinds /\ BlankMessage) =>
        /\ calls = <<>>
        /\ Done => result.status = "rejected"

\* ------------------------------------------- search recommendations: claims

\* the fixed vocabulary of categories
CategoryVocabulary ==
    { <<"E","d","u","c","a","t","i","o","n","a","l">>, <<"O","u","t","d","o","o","r"," ","F","u","n">>, <<"P","l","u","s","h","i","e","s">>, <<"A","r","t","s"," ","&"," ","C","r","a","f","t","s">>, <<"R","o","b","o","t","s">>, <<"G","i","f","t","s">> }

\* the trimmed non-blank entries of the provider's text, in its order
RankingOf(text) ==
    LET entries == split(text)
    IN  SelectSeq([i \in 1..Len(entries) |-> trim(entries[i])], nonBlank)

\* C11 as stated: the list a search returns is made of categories of the fixed
\* vocabulary, holds at most four of them and none twice, and keeps the order
\* of the provider's ranking.
C11_RecommendationsWithinVocabulary ==
    (Done /\ kind = "search") =>
        /\ \A i \in 1..Len(result.value) : result.value[i] \in CategoryVocabulary
        /\ Len(result.value) <= 4
        /\ \A i, j \in 1..Len(result.value) : i # j => result.value[i] # result.value[j]
        /\ result.source = "remote" =>
               /\ Len(result.value) <= Len(RankingOf(outcomes[1].data))
               /\ \A i \in 1..Len(result.value) :
                      result.value[i] = RankingOf(outcomes[1].data)[i]

\* the provider was not reached, threw, or its text has no non-blank entry
NoUsableEntry ==
    \/ outcomes = <<>>
    \/ outcomes[1].kind # "text"
    \/ \A e \in 1..Len(split(outcomes[1].data)) :
           \A k \in 1..Len(split(outcomes[1].data)[e]) :
               split(outcomes[1].data)[e][k] \in WhiteSpace

\* C12: a search always resolves, with a list that is not empty: the static
\* default Educational, Plushies, Outdoor Fun when there is no credential, the
\* provider throws, gives no text or an empty one, or no entry between the
\* commas of its text is non-blank.
C12_SearchNeverEmptyNeverRejects ==
    (Done /\ kind = "search") =>
        /\ result.status = "resolved"
        /\ Len(result.value) > 0
        /\ NoUsableEntry =>
               result.value = << <<"E","d","u","c","a","t","i","o","n","a","l">>, <<"P","l","u","s","h","i","e","s">>, <<"O","u","t","d","o","o","r"," ","F","u","n">> >>
        /\ ~KeyConfigured => calls = <<>>

\* a text of commas and blanks only gives the default
C12_Witness ==
    /\ Done /\ kind = "search" /\ KeyConfigured
    /\ outcomes = <<Outcome("text", <<" ",","," ",",">>)>>
    /\ result.value = defaultCategories

C12_WitnessThrow ==
    /\ Done /\ kind = "search"
    /\ outcomes = <<Outcome("throw", <<>>)>>
    /\ result.value = defaultCategories

\* ------------------------------------- image generation, editing: more claims

\* every Imagen and Gemini call of the request finished without an image
ProvidersAllFailed ==
    \A i \in 1..Len(calls) : calls[i].strategy # Keyless => Failed(i)

\* C14: a generation whose Imagen and Gemini strategies all failed and whose
\* keyless strategy succeeded returns the url of the keyless service, an https
\* url built from the prompt, and not a base64 data uri.
C14_KeylessResultIsTheUrl ==
    (Done /\ kind = "generate" /\ ProvidersAllFailed /\ result.status = "resolved") =>
        /\ result.source = Keyless
        /\ result.value = calls[Len(calls)].request
        /\ result.value[1] = "https://image.pollinations.ai/prompt/"
        /\ \A k \in 1..Len(result.value) :
               result.value[k] \notin {"data:", ";base64,", "data:image/png;base64,"}
        /\ \E now \in Clock :
               SubSeq(result.value, Len(result.value) - 5, Len(result.value)) =
                   <<"?width=", "1024", "&height=", "1024", "&nologo=true&seed=", ToString(now)>>

\* the url of the keyless service for an instruction at time now, as a
\* function of the instruction alone
FreshGenerationUrl(instruction, now) ==
    <<"https://image.pollinations.ai/prompt/">>
    \o encodeURIComponent(instruction
           \o <<","," ","t","o","y"," ","i","l","l","u","s","t","r","a","t","i","o","n",","," ","c","o","l","o","r","f","u","l"," ","k","i","d","s"," ","t","o","y"," ","i","l","l","u","s","t","r","a","t","i","o","n",","," ","b","r","i","g","h","t"," ","c","h","e","e","r","f","u","l",","," ","w","h","i","t","e"," ","b","a","c","k","g","r","o","u","n","d">>)
    \o <<"?width=", "1024", "&height=", "1024", "&nologo=true&seed=", ToString(now)>>

\* C15: in an edit, the request sent to the keyless service is a generation
\* from the instruction alone: it is the same, up to the seed, for every source
\* image (bytes and type), while Imagen and Gemini are sent the image; the
\* result of a keyless success is that url.
C15_EditFallbackIgnoresTheImage ==
    (kind = "edit") =>
        /\ \A i \in 1..Len(calls) :
               IF calls[i].strategy = Keyless
               THEN \E now \in Clock : calls[i].request = FreshGenerationUrl(message, now)
               ELSE /\ calls[i].request.image = btoa(imageFile.bytes)
                    /\ calls[i].request.mimeType = (IF imageFile.type = "" THEN "image/png"
                                                    ELSE imageFile.type)
        /\ (Done /\ result.status = "resolved" /\ result.source = Keyless) =>
               \E now \in Clock : result.value = FreshGenerationUrl(message, now)

\* Scenario D: Imagen and Gemini were sent the image and failed, the keyless
\* generation succeeded
C15_Witness ==
    /\ Done /\ kind = "edit" /\ ai # NULL
    /\ imageFile.bytes = <<77, 97, 110>>
    /\ Len(calls) = 4
    /\ calls[1].request.image = <<"T","W","F","u">>
    /\ calls[3].request.mimeType = "image/jpeg"
    /\ ProvidersAllFailed
    /\ result.status = "resolved" /\ result.source = Keyless

\* no credential: the keyless generation is the only strategy of the edit
C15_WitnessNoCredential ==
    /\ Done /\ kind = "edit" /\ ai = NULL
    /\ imageFile.type = ""
    /\ Len(calls) = 1
    /\ result.source = Keyless

\* what the promise of the keyless strategy was decided as by its first callback
DecidedByFirst ==
    /\ fired # <<>>
    /\ outcomes[Len(outcomes)] = Outcome(fired[1], <<>>)
    /\ Len(outcomes) = Len(calls)
    /\ IF fired[1] = "load"
       THEN result = Resolved(Keyless, NoReply, calls[Len(calls)].request)
       ELSE result = Rejected(TerminalErrorOf(kind))

\* C16: the promise of the keyless strategy is settled by the first of load,
\* error and timeout to happen, load giving the url and error or timeout the
\* failure; it is settled once the 60 seconds are over; and once settled, no
\* later event changes the outcome.
C16_KeylessSettlesOnceWithinBound ==
    /\ [](promised =>
             /\ settled <=> fired # <<>>
             /\ settled => DecidedByFirst
             /\ ~settled => result = Pending /\ pc = "pollinations"
             /\ elapsed * TimeUnit > 60000 => settled
             /\ \A k \in 1..Len(fired) : fired[k] = "timeout" => elapsed * TimeUnit >= 60000)
    /\ [][settled => (settled' /\ result' = result /\ outcomes' = outcomes /\ pc' = pc)]_vars

\* the load arrives after the timeout has decided: the request stays rejected
C16_Witness ==
    /\ promised /\ settled
    /\ fired = <<"timeout", "load">>
    /\ result.status = "rejected"

\* the timer runs after the load has decided: the request stays resolved
C16_WitnessLateTimer ==
    /\ promised /\ settled
    /\ fired = <<"load", "timeout">>
    /\ result.status = "resolved"

\* ------------------------------------------------------ determinism: claims

\* the earlier call met the same provider behaviour as this one
SameProviderBehaviour == previous.ran /\ outcomes = previous.outcomes

\* C17: two calls of an entry point with the same arguments whose strategies
\* behaved the same have the same winning strategy and the same result.
C17_SameRequestSameResult ==
    (Done /\ SameProviderBehaviour) => result = previous.result

\* a keyless url without its last piece, the reading of Date.now() given as seed
WithoutSeed(url) == SubSeq(url, 1, Len(url) - 1)

\* C17, amended: the two calls agree on whether they resolved, on the winning
\* strategy, on the error and on the reply; they return the same value, except
\* that two urls of the keyless service may differ in their seed, which is
\* the time of the call.
C17_SameResultUpToSeed ==
    (Done /\ SameProviderBehaviour) =>
        /\ result.status = previous.result.status
        /\ result.source = previous.result.source
        /\ result.error = previous.result.error
        /\ result.reply = previous.result.reply
        /\ IF result.source = Keyless
           THEN /\ WithoutSeed(result.value) = WithoutSeed(previous.result.value)
                /\ \E now \in Clock : result.value[Len(result.value)] = ToString(now)
                /\ \E now \in Clock : previous.result.value[Len(result.value)] = ToString(now)
           ELSE result.value = previous.result.value

\* two generations after which Imagen and both Gemini variants failed alike
\* and the url loaded: the two urls differ
C17_Witness ==
    /\ Done /\ SameProviderBehaviour
    /\ kind = "generate" /\ ai # NULL
    /\ Len(outcomes) = 4
    /\ result.status = "resolved" /\ result.source = Keyless
    /\ result.value # previous.result.value

\* two chats the provider answered alike
C17_WitnessChat ==
    /\ Done /\ SameProviderBehaviour
    /\ kind = "chat" /\ ai # NULL
    /\ result.status = "resolved" /\ result.source # "local"
    /\ result = previous.result

\* ------------------------------------------------- terminal error: claims

\* why a chain was exhausted: a provider that answered, but without an image,
\* lacks the capability; throws, a url that fails to load and the timeout are
\* generic failures
CauseOf(outs) ==
    IF \E i \in 1..Len(outs) : outs[i].kind = "response"
    THEN "capability unsupported" ELSE "generic failure"

\* C18: the message of the terminal error of an exhausted image chain tells a
\* "capability unsupported" failure from a "generic failure": two exhausted
\* chains with different causes give the caller different messages.
C18_MessageTellsTheCause ==
    (/\ Done /\ previous.ran /\ kind = "generate"
     /\ result.status = "rejected" /\ previous.result.status = "rejected"
     /\ CauseOf(outcomes) # CauseOf(previous.outcomes)) =>
        result.error # previous.result.error

\* ----------------------------------------------- forwarded history: claims

\* how many turns of the history are forwarded
Forwarded == IF Len(history) < 20 THEN Len(history) ELSE 20

\* C19: the conversation sent to the remote chat strategy is the preamble
\* pair, then the last min(20, |history|) turns of the history in their order
\* and with their roles, then the message as a user turn; older turns are
\* dropped, and the history of the caller is never changed.
C19_ForwardedConversation ==
    /\ [](\A i \in 1..Len(calls) :
              kind = "chat" =>
                  LET sent == calls[i].request
                  IN  /\ Len(sent) = 2 + Forwarded + 1
                      /\ sent[1].role = "user" /\ sent[1].text[1] = "SYSTEM_PROMPT"
                      /\ sent[2].role = "model"
                      /\ \A k \in 1..Forwarded :
                             LET turn == history[Len(history) - Forwarded + k]
                             IN  sent[2 + k].role = turn.role /\ sent[2 + k].text = turn.text
                      /\ sent[Len(sent)] = [role |-> "user", text |-> message])
    /\ [][history' = history]_vars

\* a chat with the longest history, of more than 20 turns: the call carries
\* 23 turns, the third being the 20th from the end of the history
C19_Witness ==
    /\ kind = "chat" /\ Done
    /\ Len(history) = MaxHistory
    /\ Len(calls) = 1
    /\ Len(calls[1].request) = 23
    /\ calls[1].request[3].text = <<"turn ", ToString(MaxHistory - 19)>>
    /\ calls[1].request[22].text = <<"turn ", ToString(MaxHistory)>>
    /\ calls[1].request[23].text = message

\* ---------------------------------------------------- failure logs: claims

\* the attempts of the request that failed so far
FailedAttempts == {i \in 1..Len(outcomes) : Failed(i)}

\* the attempts that failed by an error: a throw of the provider, or the
\* rejection of the keyless promise
ThrownAttempts == {i \in 1..Len(outcomes) : outcomes[i].kind \in {"throw", "error", "timeout"}}

\* C20: every failed strategy attempt of an image chain emits its own log
\* entry, whether it threw or answered without a usable image, and whether or
\* not a later strategy succeeds.
C20_EveryFailedAttemptIsLogged ==
    Len(console) = Cardinality(FailedAttempts)

\* the console holds one entry for each attempt that failed by an error
OnlyThrowsAreLogged ==
    Len(console) = Cardinality(ThrownAttempts)

\* ------------------------------------------- language independence: claims

\* what the local responder answers to the same message in the other language
otherLanguage == IF language = "en" THEN "bn" ELSE "en"

inOtherLanguage == localChatFallback(message, otherLanguage)

RECURSIVE linesOf(_)
linesOf(text) ==
    LET breaks == {i \in 1..Len(text) : text[i] = "\n"}
    IN  IF text = <<>> THEN <<>>
        ELSE IF breaks = {} THEN <<text>>
        ELSE LET b == CHOOSE i \in breaks : \A j \in breaks : i <= j
             IN  <<SubSeq(text, 1, b - 1)>>
                 \o (IF b = Len(text) THEN <<<<>>>> ELSE linesOf(SubSeq(text, b + 1, Len(text))))

\* a line read back: the name stands before the first " (Rs", the price is the
\* run of digits behind it
parsedLine(line) ==
    LET opens == {i \in 1..Len(line) : LiteralAt(line, i, <<" ","(","Rs">>)}
    IN  IF opens = {} THEN [name |-> line, price |-> 0 - 1]
        ELSE LET o == CHOOSE i \in opens : \A j \in opens : i <= j
             IN  [name |-> SubSeq(line, 1, o - 1),
                  price |-> parseInt(SubSeq(line, o + 3, SkipChars(line, o + 3, Digits) - 1))]

\* C22: read back line by line, the text of the catalog gives the name and the
\* price of each product, one line per product in the order of the catalog.
C22_CatalogRoundTrip ==
    (Done /\ kind = "catalog") =>
        LET lines == linesOf(result.value)
        IN  /\ Len(lines) = Len(products)
            /\ \A k \in 1..Len(products) :
                   parsedLine(lines[k]) = [name |-> products[k].name, price |-> products[k].price]
            /\ {parsedLine(lines[k]) : k \in 1..Len(lines)}
                   = {[name |-> products[k].name, price |-> products[k].price] : k \in 1..Len(products)}

\* a catalog of three products, two of the same name, one with " (Rs" and
\* " | " in its description
C22_Witness ==
    /\ Done /\ kind = "catalog"
    /\ Len(products) = 3
    /\ products[1].name = products[3].name
    /\ products[1].price # products[3].price
    /\ products[2].description = <<"W","a","s"," ","Rs","1","1","9","9",","," ","n","o","w"," ","(","Rs","9","9","9",")">>
    /\ Len(linesOf(result.value)) = 3

\* -------------------------------------------------- voice assistant: claims

\* how many messages of a role the conversation holds
Count(who) == Cardinality({k \in 1..Len(messages) : messages[k].role = who})

C24_WitnessLoading ==
    /\ Len(voiceCalls) = 1 /\ isLoading /\ Count("user") = 1 /\ textInput = <<" ">>

\* --------------------------------------------- computed lists: claims

\* the branches whose list is computed from the catalog
ComputedBranches == {"price", "category", "best", "default"}

\* C23: every product the local responder names in a computed list (the
\* price branch with matches, the category, best and default branches) is in
\* stock in the catalog, and no such list holds more than 3 products.
C23_ListsAreInStockAndShort ==
    (Done /\ kind = "local" /\ reply.branch \in ComputedBranches) =>
        /\ Len(reply.items) <= 3
        /\ \A k \in 1..Len(reply.items) :
               \E i \in 1..Len(products) :
                   /\ products[i].name = reply.items[k].name
                   /\ products[i].price = reply.items[k].price
                   /\ products[i].stock > 0

\* a default reply over a catalog of four products, one of them out of
\* stock: it lists the three others
C23_Witness ==
    /\ Done /\ kind = "local" /\ reply.branch = "default"
    /\ Len(products) = 4
    /\ Cardinality(InStockAll) = 3
    /\ Len(reply.items) = 3

\* a price reply over a catalog with four affordable products in stock
C23_WitnessPrice ==
    /\ Done /\ kind = "local" /\ reply.branch = "price"
    /\ Cardinality({i \in InStockAll : products[i].price <= parseInt(priceMatch(lowered))}) = 4
    /\ Len(reply.items) = 3

\* ---------------------------------------------------- navbar search: claims

\* the suggestions that belong to the current query
Expected ==
    IF trim(searchQuery) = <<>> THEN <<>> ELSE slice0(searched(mockProducts, searchQuery), 5)

\* C25: whenever no products.list request is in flight, the suggestions shown
\* are the first (up to 5) results for the current searchQuery, and none when
\* the query is blank: the response for an older query never stays on display.
\* (Over the network a failed fetch may leave none.)
C25_SuggestionsMatchTheQuery ==
    listCalls = <<>> =>
        \/ suggestions = Expected
        \/ ~USE_MOCK_BACKEND /\ suggestions = <<>>

\* ------------------------------------------------------------ auth: claims

\* C26: after logout() isAuthenticated stays false and the session store
\* stays without currentUser and authToken until a login() or
\* loginWithGoogle() call is started afterwards.
C26_LoggedOutStaysLoggedOut ==
    loggedOut =>
        /\ ~isAuthenticated
        /\ sessionStorage = EmptyStore

\* C27: isAuthenticated is true iff user is non-null iff role is non-null,
\* role is user.role, and an authenticated user is the one the session store
\* holds under currentUser.
C27_AuthStateIsConsistent ==
    /\ isAuthenticated <=> user # NoUser
    /\ isAuthenticated <=> role # ""
    /\ role = user.role
    /\ isAuthenticated => sessionStorage.currentUser = user /\ sessionStorage.authToken # ""

\* a demo login was answered after a logout that found a Firebase user
\* signed in: the page is authenticated as the demo user again
C27_Witness ==
    /\ isAuthenticated /\ user = Admin /\ role = "admin"
    /\ sessionStorage.currentUser = Admin
    /\ firebaseEnabled /\ firebaseUser = NoUser
    /\ loginCalls = <<>> /\ authChanges = 0

\* --------------------------------------------------------- history: claims

\* C28: the stored viewed-items list has at most 10 entries and no
\* duplicates; saving a name not in the list puts it at the front and drops
\* what lies beyond 10, saving a name of the list leaves the list as it was.
C28_HistoryIsShortAndUnique ==
    /\ [](/\ Len(viewedItems) <= 10
          /\ \A j, k \in 1..Len(viewedItems) : viewedItems[j] = viewedItems[k] => j = k)
    /\ [][saves' = saves + 1 =>
              IF \E k \in 1..Len(viewedItems) : viewedItems[k] = productName'
              THEN viewedItems' = viewedItems
              ELSE /\ viewedItems'[1] = productName'
                   /\ Len(viewedItems') = (IF Len(viewedItems) < 10 THEN Len(viewedItems) + 1 ELSE 10)
                   /\ \A k \in 2..Len(viewedItems') : viewedItems'[k] = viewedItems[k - 1]]_vars

\* a new name was saved over a full list, whose oldest entry went
C28_Witness ==
    /\ saves = 1
    /\ Len(viewedItems) = 10
    /\ viewedItems[1] = productName /\ productName = NameAt(11)
    /\ viewedItems[2] = NameAt(1)
    /\ viewedItems[10] = NameAt(9)

\* ---------------------------------------------------------- orders: claims

\* the customer an order was made for
customerOf(order) == IF order.customerEmail # "" THEN order.customerEmail ELSE order.user

\* C29: fetching the orders of an email returns only orders of that customer,
\* newest first, and with them every order made for that customer so far.
C29_OwnOrdersNewestFirst ==
    [][fetched' # fetched =>
          LET returned == fetched'.orders
              email == fetched'.email
              held == {collection[k] : k \in 1..Len(collection)} \cup {mockOrders[k] : k \in 1..Len(mockOrders)}
          IN  /\ \A k \in 1..Len(returned) : customerOf(returned[k]) = email
              /\ \A j, k \in 1..Len(returned) : j < k => returned[j].createdAt > returned[k].createdAt
              /\ \A order \in held :
                     customerOf(order) = email /\ order.createdAt > Len(seedOrders)
                         => \E k \in 1..Len(returned) : returned[k] = order]_vars

\* ------------------------------------------------------------ shop: claims

\* C30: with price ranges selected, the products listed are exactly those
\* whose price lies in one of the ranges, min inclusive and max exclusive, in
\* the order of the catalog, over the mock backend and over the server alike.
C30_ListedAreInASelectedRange ==
    shown.ranges # <<>> =>
        shown.products =
            SelectSeq(shopProducts, LAMBDA p :
                \E k \in 1..Len(shown.ranges) :
                    shown.ranges[k].min <= p.price /\ p.price < shown.ranges[k].max)

====
